---- MODULE Spec2Model ----
(***************************************************************************)
(* A model of karakeep-digest: the retrieval client (karakeep.ts), the     *)
(* section selection engine (categorizer.ts) and the summarization worker  *)
(* pool (summarizer.ts).  Each component has its own specification; the    *)
(* variables of the other components stay at their initial values.         *)
(***************************************************************************)
EXTENDS Integers, Sequences, FiniteSets, TLC

VARIABLES
    \* ---- apiRequest (karakeep.ts) ----
    apiPc,        \* "fetch" | "sleep" | "returned" | "thrown"
    attempt,      \* the for-loop counter of apiRequest
    lastError,    \* the lastError local
    httpLog,      \* the responses received, one per HTTP request made
    sleepLog,     \* the sleep(ms) calls made: [attempt, ms]
    apiResult,    \* the value returned, or the error thrown
    \* ---- mapWithConcurrency (summarizer.ts) ----
    items,        \* the items argument
    concurrency,  \* the concurrency argument
    queue,        \* the shared queue of [index, item] entries
    results,      \* the results array: index -> value, unassigned indices are holes
    workers,      \* worker -> its position: awaiting fn on an entry, finished, rejected
    inFlight,     \* fn calls started and not yet settled
    callCount,    \* index -> how many times fn was called on that entry
    completionLog,\* the indices in the order their fn calls settled
    poolPc,       \* "idle" | "running" | "resolved" | "rejected"
    poolResult,   \* the array mapWithConcurrency resolved with, or the error
    \* ---- categorize (categorizer.ts) ----
    catPc,              \* the section categorize computes next, or "idle" / "done"
    bookmarks,          \* the arguments of categorize (ids of bookmarks)
    lastYearBookmarks,
    archivedBookmarks,
    usedIds,            \* the used-identifier set
    recentlySaved,      \* the six sections
    buriedTreasure,
    thisMonthLastYear,
    tagRoundup,
    randomPick,
    fromTheArchives,
    totalUnread,        \* stats.totalUnread
    \* ---- summarizeSections (summarizer.ts) ----
    sumPc,        \* the await summarizeSections is at, or "idle" / "done" / "rejected"
    sections,     \* the sections argument
    digest,       \* the summarized sections built so far
    fnState,      \* worker (0: the direct call) -> where its toSummarizedBookmark is
    llmLog,       \* bookmark id (0: the cluster) -> the outcomes of its provider.complete calls
    llmInFlight,  \* provider.complete calls started and not yet settled
    fetchRaised,  \* a fetchBookmarkContent call has thrown
    fetchFailed,  \* a fetchBookmarkContent call has failed to read its asset
    \* ---- filterSufficientContent (categorizer.ts) ----
    filterInput,  \* the array the first call was given
    filterArray,  \* that array, after the call
    filterOutputs,\* the arrays returned: by the call, then by a call on its result
    \* ---- generateAndSendDigest (index.ts) and fetchBookmarks (karakeep.ts) ----
    runPc,        \* the await the run is at: a retrieval, "summarize", "send"; or "idle"
    runOutcome,   \* "running" | "done" | "skipped" | "failed"
    runError,     \* the error the run failed with
    server,       \* the pages the server holds: [unread, archived]
    fetchAcc,     \* the bookmarks local of the fetchBookmarks call under way
    cursor,       \* its cursor local (0: null)
    requestLog,   \* the cursors of the page requests it has made
    runUnread,    \* what the three retrievals returned to the run
    runLastYear,
    runArchived,
    rendered,     \* renderDigest was called
    emailsSent,   \* the sendDigest calls that succeeded
    \* ---- truncateContent (summarizer.ts) ----
    truncPc,      \* "idle" | "returned"
    truncInput,   \* the content argument
    truncOutput,  \* the string returned
    \* ---- calculatePriorityScore (categorizer.ts) ----
    scorePc,      \* "idle" | "scored" | "rescored"
    priorityTagsEnv, \* config.priorityTags, split at its commas
    scoreBookmark,\* the bookmark scored
    scoreFirst,   \* its score
    tagAdded,     \* the tag then added to it
    scoreSecond   \* the score of the bookmark with that tag

apiVars == <<apiPc, attempt, lastError, httpLog, sleepLog, apiResult>>
poolVars == <<items, concurrency, queue, results, workers, inFlight, callCount,
              completionLog, poolPc, poolResult>>

catVars == <<catPc, bookmarks, lastYearBookmarks, archivedBookmarks, usedIds,
             recentlySaved, buriedTreasure, thisMonthLastYear, tagRoundup,
             randomPick, fromTheArchives, totalUnread>>

sumVars == <<sumPc, sections, digest, fnState, llmLog, llmInFlight, fetchRaised,
             fetchFailed>>

filterVars == <<filterInput, filterArray, filterOutputs>>

runVars == <<runPc, runOutcome, runError, server, fetchAcc, cursor, requestLog,
             runUnread, runLastYear, runArchived, rendered, emailsSent>>

truncVars == <<truncPc, truncInput, truncOutput>>

scoreVars == <<scorePc, priorityTagsEnv, scoreBookmark, scoreFirst, tagAdded,
               scoreSecond>>

vars == <<apiVars, poolVars, catVars, sumVars, filterVars, runVars, truncVars,
          scoreVars>>

\* The variables of the other components, for the actions of one component.
notApi == <<poolVars, catVars, sumVars, filterVars, runVars, truncVars, scoreVars>>
notPool == <<apiVars, catVars, sumVars, filterVars, runVars, truncVars, scoreVars>>
notCat == <<apiVars, poolVars, sumVars, filterVars, runVars, truncVars, scoreVars>>
notSum == <<apiVars, catVars, filterVars, runVars, truncVars, scoreVars>>
notFilter == <<apiVars, poolVars, catVars, sumVars, runVars, truncVars, scoreVars>>
notRun == <<poolVars, catVars, sumVars, filterVars, truncVars, scoreVars>>
notTrunc == <<apiVars, poolVars, catVars, sumVars, filterVars, runVars, scoreVars>>
notScore == <<apiVars, poolVars, catVars, sumVars, filterVars, runVars, truncVars>>

\* null, for a section holding one bookmark (bookmark ids are positive).
NoBookmark == 0

\* null, for the tag roundup.
NoRoundup == [present |-> FALSE, tag |-> "", bookmarks |-> <<>>]

\* categorize has not been called.
CatIdle ==
    /\ catPc = "idle"
    /\ bookmarks = <<>>
    /\ lastYearBookmarks = <<>>
    /\ archivedBookmarks = <<>>
    /\ usedIds = {}
    /\ recentlySaved = <<>>
    /\ buriedTreasure = <<>>
    /\ thisMonthLastYear = <<>>
    /\ tagRoundup = NoRoundup
    /\ randomPick = NoBookmark
    /\ fromTheArchives = NoBookmark
    /\ totalUnread = 0

\* A string, as far as the pipeline reads it: what it is, and its length.
Str(text, of, len) == [text |-> text, of |-> of, len |-> len]

\* undefined, where a string is expected.
Undefined == Str("undefined", 0, 0)

\* A summarized section holding one bookmark: null.
NoSummarized == [id |-> NoBookmark, aiSummary |-> Undefined, readTime |-> 0]

\* No synthesis record.
NoSynthesis ==
    [kind |-> "none", count |-> 0, tag |-> "", keyInsights |-> <<>>, standout |-> Undefined]

\* The stats of a value that has none yet.
NoStats == [totalUnread |-> 0, generatedAt |-> 0]

\* A DigestSections value without items.
EmptySections ==
    [recentlySaved |-> <<>>, buriedTreasure |-> <<>>, thisMonthLastYear |-> <<>>,
     tagRoundup |-> NoRoundup, randomPick |-> NoBookmark, fromTheArchives |-> NoBookmark,
     stats |-> NoStats]

\* A SummarizedDigest value without items.
EmptyDigest ==
    [recentlySaved |-> <<>>, buriedTreasure |-> <<>>, thisMonthLastYear |-> <<>>,
     tagRoundup |-> [present |-> FALSE, tag |-> "", bookmarks |-> <<>>,
                     synthesis |-> NoSynthesis],
     randomPick |-> NoSummarized, fromTheArchives |-> NoSummarized,
     stats |-> NoStats]

\* summarizeSections has not been called.
SumIdle ==
    /\ sumPc = "idle"
    /\ sections = EmptySections
    /\ digest = EmptyDigest
    /\ fnState = <<>>
    /\ llmLog = <<>>
    /\ llmInFlight = 0
    /\ fetchRaised = FALSE
    /\ fetchFailed = FALSE

\* What a retrieval of the run has not returned yet.
NotReturned == <<NoBookmark>>

\* filterSufficientContent has not been called.
FilterIdle ==
    /\ filterInput = <<>>
    /\ filterArray = <<>>
    /\ filterOutputs = <<>>

\* truncateContent has not been called.
TruncIdle ==
    /\ truncPc = "idle"
    /\ truncInput = <<>>
    /\ truncOutput = <<>>

\* calculatePriorityScore has not been called.
ScoreIdle ==
    /\ scorePc = "idle"
    /\ priorityTagsEnv = <<>>
    /\ scoreBookmark = [createdAt |-> 0, tags |-> <<>>, contentLength |-> 0]
    /\ scoreFirst = [ageInDays |-> 0, boost |-> 0]
    /\ tagAdded = ""
    /\ scoreSecond = [ageInDays |-> 0, boost |-> 0]

\* No run has started.
RunIdle ==
    /\ runPc = "idle"
    /\ runOutcome = "running"
    /\ runError = [msg |-> "null", status |-> 0]
    /\ server = [unread |-> <<>>, archived |-> <<>>]
    /\ fetchAcc = <<>>
    /\ cursor = 0
    /\ requestLog = <<>>
    /\ runUnread = NotReturned
    /\ runLastYear = NotReturned
    /\ runArchived = NotReturned
    /\ rendered = FALSE
    /\ emailsSent = 0

\* The components a specification leaves alone.
OthersIdle == FilterIdle /\ RunIdle /\ TruncIdle /\ ScoreIdle

\* No mapWithConcurrency call is under way.
PoolIdle ==
    /\ items = <<>>
    /\ concurrency = 0
    /\ queue = <<>>
    /\ results = <<>>
    /\ workers = <<>>
    /\ inFlight = 0
    /\ callCount = <<>>
    /\ completionLog = <<>>
    /\ poolPc = "idle"
    /\ poolResult = <<>>

(***************************************************************************)
(*                      Retrieval client: apiRequest                       *)
(***************************************************************************)

MAX_RETRIES == 3
RETRY_DELAY_MS == 1000
RATE_LIMIT_FALLBACK_MS == 5000

\* parseInt's "no digits" result.  NaN * 1000 is NaN again.
NaN == -1

\* The statuses a server answers with in the model.
Statuses == {200, 400, 404, 429, 500, 503}

\* A header value is a sequence of characters; headers.get gives null when
\* the header is absent, modelled by present = FALSE.
NoHeader == [present |-> FALSE, value |-> <<>>]
Header(v) == [present |-> TRUE, value |-> v]
RetryAfterHeaders ==
    { NoHeader, Header(<<>>), Header(<<"0">>), Header(<<"2">>),
      Header(<<"1", "0">>), Header(<<"2", "s">>), Header(<<"W", "e", "d">>) }

\* What one fetch(url) can do: reject (network failure), or resolve with a
\* response of some status; a 429 may carry Retry-After; a 2xx body may or
\* may not parse as JSON.
NetworkFailure == [kind |-> "network", status |-> 0, retryAfter |-> NoHeader, jsonOk |-> FALSE]
HttpResponse(s, h, j) == [kind |-> "http", status |-> s, retryAfter |-> h, jsonOk |-> j]
Responses ==
    {NetworkFailure}
    \cup { HttpResponse(429, h, FALSE) : h \in RetryAfterHeaders }
    \cup { HttpResponse(s, NoHeader, FALSE) : s \in Statuses \ {200, 429} }
    \cup { HttpResponse(200, NoHeader, j) : j \in BOOLEAN }

RECURSIVE Pow2(_)
Pow2(n) == IF n <= 0 THEN 1 ELSE 2 * Pow2(n - 1)

DigitValue(c) ==
    CASE c = "0" -> 0 [] c = "1" -> 1 [] c = "2" -> 2 [] c = "3" -> 3
      [] c = "4" -> 4 [] c = "5" -> 5 [] c = "6" -> 6 [] c = "7" -> 7
      [] c = "8" -> 8 [] c = "9" -> 9 [] OTHER -> NaN

\* parseInt(s, 10): the value of the longest prefix of decimal digits, NaN
\* when the first character is no digit.
RECURSIVE ParseDigits(_, _, _)
ParseDigits(s, i, acc) ==
    IF i > Len(s) \/ DigitValue(s[i]) = NaN THEN acc
    ELSE ParseDigits(s, i + 1, acc * 10 + DigitValue(s[i]))

ParseInt(s) ==
    IF Len(s) = 0 \/ DigitValue(s[1]) = NaN THEN NaN ELSE ParseDigits(s, 1, 0)

\* A header string is truthy when it is not null and not "".
Truthy(h) == h.present /\ Len(h.value) > 0

RateLimitDelayNoScale(retryAfter) ==
    IF Truthy(retryAfter)
    THEN ParseInt(retryAfter.value)
    ELSE RATE_LIMIT_FALLBACK_MS

\* const delay = retryAfter ? parseInt(retryAfter, 10) * 1000 : 5000;
RateLimitDelay(retryAfter) ==
    IF Truthy(retryAfter)
    THEN (IF ParseInt(retryAfter.value) = NaN THEN NaN
          ELSE ParseInt(retryAfter.value) * 1000)
    ELSE RATE_LIMIT_FALLBACK_MS

BackoffDelayOffByOne(a) == RETRY_DELAY_MS * Pow2(a)

\* const delay = RETRY_DELAY_MS * 2 ** (attempt - 1);
BackoffDelay(a) == RETRY_DELAY_MS * Pow2(a - 1)

NullError == [msg |-> "null", status |-> 0]
UnknownError == [msg |-> "Unknown error during API request", status |-> 0]

\* response.ok
ResponseOk(r) == r.status >= 200 /\ r.status <= 299

\* The error the try block throws on response r (NullError: none thrown).
ThrownBy(r) ==
    IF r.kind = "network" THEN [msg |-> "fetch failed", status |-> 0]
    ELSE IF r.status >= 500 THEN [msg |-> "Server error", status |-> r.status]
    ELSE IF ~ResponseOk(r) THEN [msg |-> "API error", status |-> r.status]
    ELSE IF ~r.jsonOk THEN [msg |-> "invalid json", status |-> r.status]
    ELSE NullError

ApiStart ==
    /\ apiPc = "fetch"
    /\ attempt = 1
    /\ lastError = NullError
    /\ httpLog = <<>>
    /\ sleepLog = <<>>
    /\ apiResult = NullError

\* The iteration ends without counting the attempt.
EndIterationUncounted(err) ==
    /\ attempt' = attempt
    /\ apiPc' = "fetch"
    /\ apiResult' = apiResult

\* The end of one loop iteration: attempt++ and the loop test; when the loop
\* is over, throw lastError || new Error("Unknown error ...").
EndIteration(err) ==
    /\ attempt' = attempt + 1
    /\ IF attempt + 1 <= MAX_RETRIES
       THEN apiPc' = "fetch" /\ apiResult' = apiResult
       ELSE /\ apiPc' = "thrown"
            /\ apiResult' = IF err = NullError THEN UnknownError ELSE err

\* await fetch(url) settles with r: the rest of the try block and the catch
\* block, up to the next await (a sleep) or the end of the call.
ApiFetch(r) ==
    /\ apiPc = "fetch"
    /\ attempt <= MAX_RETRIES
    /\ httpLog' = Append(httpLog, r)
    /\ IF r.kind = "http" /\ r.status = 429
       THEN \* rate limited: sleep, then continue
            /\ sleepLog' = Append(sleepLog,
                  [attempt |-> attempt, ms |-> RateLimitDelay(r.retryAfter)])
            /\ apiPc' = "sleep"
            /\ UNCHANGED <<attempt, lastError, apiResult>>
       ELSE IF ThrownBy(r) = NullError
       THEN \* return (await response.json()) as T
            /\ apiPc' = "returned"
            /\ apiResult' = [msg |-> "json body", status |-> r.status]
            /\ UNCHANGED <<attempt, lastError, sleepLog>>
       ELSE \* catch (error)
            /\ lastError' = ThrownBy(r)
            /\ IF attempt < MAX_RETRIES
               THEN /\ sleepLog' = Append(sleepLog,
                          [attempt |-> attempt, ms |-> BackoffDelay(attempt)])
                    /\ apiPc' = "sleep"
                    /\ UNCHANGED <<attempt, apiResult>>
               ELSE /\ EndIteration(ThrownBy(r))
                    /\ UNCHANGED sleepLog
    /\ UNCHANGED notApi

\* await sleep(delay) resolves: the iteration ends.
ApiWake ==
    /\ apiPc = "sleep"
    /\ EndIteration(lastError)
    /\ UNCHANGED <<lastError, httpLog, sleepLog>>
    /\ UNCHANGED notApi

ApiNext ==
    \/ \E r \in Responses : ApiFetch(r)
    \/ ApiWake

ApiInit == ApiStart /\ PoolIdle /\ CatIdle /\ SumIdle /\ OthersIdle

SpecApi == ApiInit /\ [][ApiNext]_vars

\* Every fetch settles and every sleep timer fires.
SpecApiFair == SpecApi /\ WF_vars(ApiNext)

(***************************************************************************)
(*              Summarization worker pool: mapWithConcurrency              *)
(***************************************************************************)

\* Bounds of the pool's inputs.
MaxItems == 4
MaxConcurrency == 3

\* The values an input item can have.
ItemValues == {"a", "b"}

\* What the fn of the model resolves with for an item.
Fn(item) == [mapped |-> item]

\* An index of the results array that was never assigned.
Hole == [mapped |-> "(empty)"]

Min(a, b) == IF a <= b THEN a ELSE b

SetMax(S) == IF S = {} THEN 0 ELSE CHOOSE m \in S : \A x \in S : x <= m

WorkerCountPerItem(c, n) == n

\* Array(Math.min(concurrency, items.length))
WorkerCount(c, n) == Min(c, n)

\* const queue = [...items.entries()]  (indices from 1 here, from 0 in the code)
Entries(its) == [i \in 1..Len(its) |-> [index |-> i, item |-> its[i]]]

StoreResultPush(res, index, value) ==
    [i \in (DOMAIN res) \cup {SetMax(DOMAIN res) + 1} |->
        IF i \in DOMAIN res THEN res[i] ELSE value]

\* results[index] = value
StoreResult(res, index, value) ==
    [i \in (DOMAIN res) \cup {index} |-> IF i = index THEN value ELSE res[i]]

\* The results array as a sequence: its length is its highest assigned
\* index, and the unassigned indices below it are holes.
ArrayOf(res) ==
    [i \in 1..SetMax(DOMAIN res) |-> IF i \in DOMAIN res THEN res[i] ELSE Hole]

Awaiting(e) == [state |-> "awaiting", index |-> e.index, item |-> e.item]
Finished == [state |-> "finished", index |-> 0, item |-> ""]
Rejected == [state |-> "rejected", index |-> 0, item |-> ""]

\* mapWithConcurrency(its, fn, c) up to its await: the queue is built and
\* each of the workers runs to its first await, that is, claims the entry at
\* the head of the queue and calls fn on it.
PoolCall(its, c) ==
    LET k == WorkerCount(c, Len(its))
        claimed == Min(k, Len(its))
    IN  /\ items' = its
        /\ concurrency' = c
        /\ workers' = [w \in 1..k |->
                          IF w <= Len(its) THEN Awaiting(Entries(its)[w]) ELSE Finished]
        /\ queue' = SubSeq(Entries(its), claimed + 1, Len(its))
        /\ results' = <<>>
        /\ inFlight' = claimed
        /\ callCount' = [i \in 1..Len(its) |-> IF i <= claimed THEN 1 ELSE 0]
        /\ completionLog' = <<>>
        /\ poolPc' = "running"
        /\ poolResult' = <<>>

QueuePeek(q) == q

\* queue.shift(): what is left of the queue.
QueueShift(q) == Tail(q)

\* The fn call of worker w resolves with value: the worker stores it, and
\* goes round its loop: it claims the next entry and calls fn on it, or
\* finishes when the queue is empty.
WorkerResolve(w, value) ==
    /\ w \in DOMAIN workers
    /\ workers[w].state = "awaiting"
    /\ results' = StoreResult(results, workers[w].index, value)
    /\ completionLog' = Append(completionLog, workers[w].index)
    /\ IF Len(queue) > 0
       THEN /\ workers' = [workers EXCEPT ![w] = Awaiting(Head(queue))]
            /\ queue' = QueueShift(queue)
            /\ callCount' = [callCount EXCEPT ![Head(queue).index] = @ + 1]
            /\ inFlight' = (inFlight - 1) + 1
       ELSE /\ workers' = [workers EXCEPT ![w] = Finished]
            /\ inFlight' = inFlight - 1
            /\ UNCHANGED <<queue, callCount>>
    /\ UNCHANGED <<items, concurrency, poolPc, poolResult>>

\* The fn call of worker w rejects: the await throws and the worker's promise
\* rejects; the other workers go on.
WorkerReject(w) ==
    /\ w \in DOMAIN workers
    /\ workers[w].state = "awaiting"
    /\ workers' = [workers EXCEPT ![w] = Rejected]
    /\ completionLog' = Append(completionLog, workers[w].index)
    /\ inFlight' = inFlight - 1
    /\ UNCHANGED <<items, concurrency, queue, results, callCount, poolPc, poolResult>>

\* Settled as soon as one worker has: Promise.race(workers).
PoolOutcomeOfFirst ==
    IF \E w \in DOMAIN workers : workers[w].state = "rejected" THEN "rejected"
    ELSE IF workers = <<>> \/ \E w \in DOMAIN workers : workers[w].state = "finished"
    THEN "resolved"
    ELSE "pending"

\* Promise.all(workers): rejected once a worker has rejected, resolved once
\* every worker has finished, pending otherwise.
PoolOutcome ==
    IF \E w \in DOMAIN workers : workers[w].state = "rejected" THEN "rejected"
    ELSE IF \A w \in DOMAIN workers : workers[w].state = "finished" THEN "resolved"
    ELSE "pending"

\* The error the call of fn on the item of index i rejects with.
FnError(i) == [error |-> i]

\* The indices whose call of fn has rejected, in the order of their
\* rejections: the settled ones that have no result.
RejectedIndices == SelectSeq(completionLog, LAMBDA i : i \notin DOMAIN results)

RejectionOfLast == <<FnError(RejectedIndices[Len(RejectedIndices)])>>

\* What await Promise.all(workers) throws: the reason of the first promise
\* to reject.
RejectionOfAll == <<FnError(RejectedIndices[1])>>

\* await Promise.all(workers) settles; when it resolves: return results.
PromiseAllSettles ==
    /\ poolPc = "running"
    /\ PoolOutcome # "pending"
    /\ poolPc' = PoolOutcome
    /\ poolResult' = IF PoolOutcome = "resolved" THEN ArrayOf(results) ELSE RejectionOfAll
    /\ UNCHANGED <<items, concurrency, queue, results, workers, inFlight,
                   callCount, completionLog>>

SeqsUpTo(S, n) == UNION { [1..k -> S] : k \in 0..n }

PoolMapCall ==
    /\ poolPc = "idle"
    /\ \E its \in SeqsUpTo(ItemValues, MaxItems), c \in 1..MaxConcurrency :
          PoolCall(its, c)
    /\ UNCHANGED notPool

PoolFnResolves ==
    /\ \E w \in DOMAIN workers : WorkerResolve(w, Fn(workers[w].item))
    /\ UNCHANGED notPool

PoolFnRejects ==
    /\ \E w \in DOMAIN workers : WorkerReject(w)
    /\ UNCHANGED notPool

PoolSettles ==
    /\ PromiseAllSettles
    /\ UNCHANGED notPool

PoolInit == PoolIdle /\ ApiStart /\ CatIdle /\ SumIdle /\ OthersIdle

PoolNext ==
    \/ PoolMapCall
    \/ PoolFnResolves
    \/ PoolFnRejects
    \/ PoolSettles

SpecPool == PoolInit /\ [][PoolNext]_vars

\* Every pending call of fn settles, and the continuation of a settled
\* Promise.all runs.
SpecPoolFair ==
    SpecPool /\ WF_vars(PoolFnResolves \/ PoolFnRejects) /\ WF_vars(PoolSettles)

(***************************************************************************)
(*                   Properties of mapWithConcurrency                      *)
(***************************************************************************)

\* C5: the number of fn calls started and not yet settled never exceeds the
\* concurrency limit, nor the number of items, under every interleaving.
C5_ConcurrencyBound ==
    /\ inFlight <= concurrency
    /\ inFlight <= Len(items)
    /\ inFlight = Cardinality({ w \in DOMAIN workers : workers[w].state = "awaiting" })

\* C5's case: more items than the limit, the limit reached, entries waiting.
C5_Witness ==
    /\ poolPc = "running"
    /\ Len(items) > concurrency
    /\ inFlight = concurrency
    /\ Len(queue) > 0
    /\ Len(completionLog) > 0

\* C6: when mapWithConcurrency resolves, its result has one entry per input
\* item, and entry i is fn's result for item i, whatever the completion order.
C6_OrderPreserved ==
    poolPc = "resolved" =>
        /\ Len(poolResult) = Len(items)
        /\ \A i \in 1..Len(items) : poolResult[i] = Fn(items[i])

\* C6's case: three calls of different items settled in reverse submission
\* order, and the call resolved.
C6_Witness ==
    /\ poolPc = "resolved"
    /\ Len(items) = 3
    /\ items[1] # items[3]
    /\ completionLog = <<3, 2, 1>>

\* The workers that have a fn call pending, and the workers that are in
\* their loop no more.
AwaitingWorkers == { w \in DOMAIN workers : workers[w].state = "awaiting" }
WorkersOver == poolPc # "idle" /\ AwaitingWorkers = {}

\* No entry is claimed twice: the workers with a call pending hold different
\* indices, no entry still in the queue was handed to fn, and no index was
\* handed to fn more than once.
ClaimedApart ==
    /\ \A v, w \in AwaitingWorkers : v # w => workers[v].index # workers[w].index
    /\ \A k \in DOMAIN queue : callCount[queue[k].index] = 0
    /\ \A i \in DOMAIN callCount : callCount[i] <= 1

\* A worker claims an entry only in the step in which the call on its
\* current entry settles.
FinishesBeforeNext ==
    \A w \in DOMAIN workers :
        (w \in DOMAIN workers' /\ workers'[w] # workers[w]) =>
            /\ workers[w].state = "awaiting"
            /\ completionLog' = Append(completionLog, workers[w].index)

NoneRejected == \A w \in DOMAIN workers : workers[w].state # "rejected"

\* The indices whose call of fn has settled.
Processed == { completionLog[k] : k \in DOMAIN completionLog }

\* C31: if every call of fn completes, mapWithConcurrency resolves in the
\* end, and only after all N items have been processed; for N = 0 it
\* resolves with an empty result and fn is never called.
C31_PoolResolves ==
    /\ ([]NoneRejected) => ((poolPc = "running") ~> (poolPc = "resolved"))
    /\ [](poolPc = "resolved" =>
            /\ Processed = 1..Len(items)
            /\ \A i \in 1..Len(items) : callCount[i] = 1
            /\ Len(poolResult) = Len(items))
    /\ []((poolPc # "idle" /\ Len(items) = 0) =>
            /\ inFlight = 0 /\ callCount = <<>> /\ completionLog = <<>>
            /\ poolPc = "resolved" => poolResult = <<>>)

\* Two workers have processed three items and the call has resolved.
C31_Witness ==
    /\ poolPc = "resolved"
    /\ Len(items) = 3 /\ concurrency = 2
    /\ Processed = 1..3

\* Worker w hits an error in this step.
HitsError(w) ==
    /\ w \in DOMAIN workers /\ w \in DOMAIN workers'
    /\ workers[w].state = "awaiting" /\ workers'[w].state = "rejected"

\* The step in which worker w hits an error stops that worker alone.
OnlyTheFailedStops ==
    \A w \in DOMAIN workers :
        HitsError(w) =>
            /\ \A v \in DOMAIN workers \ {w} : workers'[v] = workers[v]
            /\ queue' = queue

\* A worker with a call pending can go on after a rejection: its call can
\* resolve, and it then claims the entry at the head of the queue.
OthersGoOn ==
    (~NoneRejected) =>
        \A w \in AwaitingWorkers :
            ENABLED (/\ PoolFnResolves
                     /\ workers'[w] = (IF queue = <<>> THEN Finished
                                       ELSE Awaiting(Head(queue))))

\* C32: when fn rejects for an item, mapWithConcurrency rejects with that
\* error; only the worker that hit the error stops; the other workers are
\* not cancelled and go on claiming and processing the queue's entries.
C32_RejectionStopsOneWorker ==
    /\ [](poolPc = "rejected" => poolResult = <<FnError(RejectedIndices[1])>>)
    /\ [](PoolOutcome = "rejected" <=> RejectedIndices # <<>>)
    /\ [][OnlyTheFailedStops]_vars
    /\ []OthersGoOn

\* The call on item 1 rejected first; the other worker then processed items
\* 2 and 3, and the call on item 4 rejected too: the call has rejected with
\* the error of item 1.
C32_Witness ==
    /\ poolPc = "rejected"
    /\ Len(items) = 4 /\ concurrency = 2
    /\ completionLog = <<1, 2, 3, 4>>
    /\ DOMAIN results = {2, 3}
    /\ poolResult = <<FnError(1)>>

(***************************************************************************)
(*                     Properties of apiRequest                            *)
(***************************************************************************)

IsRateLimited(r) == r.kind = "http" /\ r.status = 429
IsClientError(r) == r.kind = "http" /\ r.status >= 400 /\ r.status <= 499 /\ r.status # 429
IsRetryable(r) == r.kind = "network" \/ (r.kind = "http" /\ r.status >= 500)
IsSuccess(r) == r.kind = "http" /\ r.status >= 200 /\ r.status <= 299 /\ r.jsonOk

\* The sleeps made in loop iteration i.
SleepsOf(i) == { k \in DOMAIN sleepLog : sleepLog[k].attempt = i }

\* C7: a client error response (4xx other than 429) ends the call at once:
\* no request follows it (answered on the first request, it is the only
\* request of the call), no sleep follows it, and the call has thrown.
C7_ClientErrorFailsImmediately ==
    \A i \in DOMAIN httpLog :
        IsClientError(httpLog[i]) =>
            /\ i = Len(httpLog)
            /\ SleepsOf(i) = {}
            /\ apiPc = "thrown"

\* C8: 429 responses do not use up the attempt budget: a call whose failures
\* are server errors, network failures and rate limits only gives up (throws)
\* only once MAX_RETRIES requests were answered by something other than 429.
C8_RateLimitKeepsBudget ==
    (apiPc = "thrown" /\ \A i \in DOMAIN httpLog : ~IsClientError(httpLog[i]))
        => Cardinality({ i \in DOMAIN httpLog : ~IsRateLimited(httpLog[i]) }) >= MAX_RETRIES

\* C9: at most 3 requests are made; a server error or network failure in
\* iteration k < 3 is followed by one sleep of 1000 * 2^(k-1) ms (1000, then
\* 2000); in iteration 3 it is followed by no sleep and the call throws that
\* error; a success is the last request and the call returns its body.
C9_BackoffPolicy ==
    /\ Len(httpLog) <= 3
    /\ \A i \in DOMAIN httpLog :
        /\ (IsRetryable(httpLog[i]) /\ i = 1) =>
               \E k \in DOMAIN sleepLog :
                   SleepsOf(i) = {k} /\ sleepLog[k].ms = 1000
        /\ (IsRetryable(httpLog[i]) /\ i = 2) =>
               \E k \in DOMAIN sleepLog :
                   SleepsOf(i) = {k} /\ sleepLog[k].ms = 2000
        /\ (IsRetryable(httpLog[i]) /\ i = 3) =>
               /\ SleepsOf(i) = {}
               /\ apiPc = "thrown"
               /\ apiResult # NullError
               /\ apiResult.status = httpLog[i].status
               /\ apiResult.msg = (IF httpLog[i].kind = "network"
                                   THEN "fetch failed" ELSE "Server error")
        /\ IsSuccess(httpLog[i]) =>
               /\ i = Len(httpLog)
               /\ SleepsOf(i) = {}
               /\ apiPc = "returned"
               /\ apiResult = [msg |-> "json body", status |-> httpLog[i].status]

\* C9's case: three server errors / network failures in a row, the two
\* backoff sleeps made, and the call has thrown.
C9_Witness ==
    /\ apiPc = "thrown"
    /\ Len(httpLog) = 3
    /\ \A i \in DOMAIN httpLog : IsRetryable(httpLog[i])
    /\ Len(sleepLog) = 2

\* C10: a 429 response is followed by one sleep of Retry-After seconds when
\* the header carries a number of seconds, and of 5 s when the header is
\* absent; 429 with Retry-After: 2 once, then success, returns the result
\* after exactly one sleep of 2000 ms.
C10_RateLimitWait ==
    /\ \A i \in DOMAIN httpLog :
         IsRateLimited(httpLog[i]) =>
            \E k \in DOMAIN sleepLog :
               /\ SleepsOf(i) = {k}
               /\ (httpLog[i].retryAfter = NoHeader => sleepLog[k].ms = 5000)
               /\ (httpLog[i].retryAfter = Header(<<"0">>) => sleepLog[k].ms = 0)
               /\ (httpLog[i].retryAfter = Header(<<"2">>) => sleepLog[k].ms = 2000)
               /\ (httpLog[i].retryAfter = Header(<<"1", "0">>) => sleepLog[k].ms = 10000)
    /\ (/\ Len(httpLog) = 2
        /\ httpLog[1] = HttpResponse(429, Header(<<"2">>), FALSE)
        /\ IsSuccess(httpLog[2]))
         => /\ apiPc = "returned"
            /\ sleepLog = <<[attempt |-> 1, ms |-> 2000]>>
            /\ apiResult = [msg |-> "json body", status |-> httpLog[2].status]

\* C10's case: 429 with Retry-After: 2, then a success, and the call returned.
C10_Witness ==
    /\ apiPc = "returned"
    /\ Len(httpLog) = 2
    /\ httpLog[1] = HttpResponse(429, Header(<<"2">>), FALSE)
    /\ IsSuccess(httpLog[2])

\* apiRequest has returned or thrown.
ApiSettled == apiPc \in {"returned", "thrown"}

\* C29: apiRequest terminates whatever the server answers, 429 every time
\* included: it returns the parsed body of a successful response or throws
\* an error that is not null, after at most MAX_RETRIES HTTP requests.
C29_ApiRequestTerminates ==
    /\ <>ApiSettled
    /\ [](Len(httpLog) <= MAX_RETRIES)
    /\ [](apiPc = "returned" =>
            /\ IsSuccess(httpLog[Len(httpLog)])
            /\ apiResult = [msg |-> "json body", status |-> httpLog[Len(httpLog)].status])
    /\ [](apiPc = "thrown" => apiResult # NullError)

\* The server has answered 429 to every request and the call has thrown.
C29_Witness ==
    /\ apiPc = "thrown"
    /\ Len(httpLog) = MAX_RETRIES
    /\ \A i \in DOMAIN httpLog : IsRateLimited(httpLog[i])
    /\ apiResult = UnknownError

(***************************************************************************)
(*                 Section selection engine: categorize                    *)
(***************************************************************************)

BURIED_TREASURE_DAYS == 30
BURIED_TREASURE_COUNT == 3
THIS_MONTH_LAST_YEAR_COUNT == 3
MAX_ITEMS_PER_SECTION == 5
MIN_TAG_ITEMS == 3
MIN_CONTENT_LENGTH == 100
RECENTLY_SAVED_COUNT == 3
RECENTLY_SAVED_DAYS == 30

\* Bounds of categorize's inputs: the sizes of the three collections.
MaxUnread == 6
MaxLastYear == 2
MaxArchived == 2

\* const now = new Date(), in days.
Now == 1000

\* A bookmark, as far as the pipeline reads it: createdAt (in days), the
\* lengths of title, content.htmlContent, content.text and summary (0: absent
\* or empty), the number of words of the content text, content.contentAssetId
\* (0: null), and the names of its tags, in order.
Bookmark(age, title, html, text, words, asset, summary, tags) ==
    [createdAt |-> Now - age, title |-> title, htmlContent |-> html, text |-> text,
     words |-> words, contentAssetId |-> asset, summary |-> summary, tags |-> tags]

\* The bookmarks of the store, by id.  1-6 were created in the last 30 days
\* (2 exactly 30 days ago), 7 and 8 earlier; 8 has too little content; 3
\* repeats a tag; 9-11 are not in the unread collection.  12-24 all carry
\* tag "x" and have content enough: 12-14 were created in the last 30 days,
\* 15-24 earlier, 20 and 21 in this month of last year; 15, 16 and 17 carry
\* tag "y" too.
Store ==
    <<  Bookmark(0, 10, 200, 0, 30, 0, 0, <<"x">>),
        Bookmark(30, 12, 0, 100, 15, 1, 0, <<"x", "y">>),
        Bookmark(5, 8, 0, 0, 0, 0, 100, <<"x", "x">>),
        Bookmark(10, 0, 150, 20, 25, 0, 0, <<"x">>),
        Bookmark(20, 5, 100, 0, 16, 0, 50, <<"y", "x">>),
        Bookmark(29, 7, 300, 0, 50, 0, 0, <<"x">>),
        Bookmark(31, 9, 200, 0, 30, 0, 0, <<"y">>),
        Bookmark(400, 6, 99, 500, 12, 0, 99, <<"x">>),
        Bookmark(365, 0, 120, 0, 20, 0, 0, <<"y">>),
        Bookmark(500, 4, 0, 250, 40, 0, 0, <<>>),
        Bookmark(380, 0, 100, 0, 17, 2, 100, <<"z">>),
        Bookmark(1, 5, 200, 0, 30, 0, 0, <<"x">>),
        Bookmark(2, 5, 200, 0, 30, 0, 0, <<"x">>),
        Bookmark(3, 5, 200, 0, 30, 0, 0, <<"x">>),
        Bookmark(40, 5, 200, 0, 30, 0, 0, <<"x", "y">>),
        Bookmark(50, 5, 200, 0, 30, 0, 0, <<"y", "x">>),
        Bookmark(60, 5, 200, 0, 30, 0, 0, <<"x", "y">>),
        Bookmark(70, 5, 200, 0, 30, 0, 0, <<"x">>),
        Bookmark(80, 5, 200, 0, 30, 0, 0, <<"x">>),
        Bookmark(370, 5, 200, 0, 30, 0, 0, <<"x">>),
        Bookmark(375, 5, 200, 0, 30, 0, 0, <<"x">>),
        Bookmark(90, 5, 200, 0, 30, 0, 0, <<"x">>),
        Bookmark(100, 5, 200, 0, 30, 0, 0, <<"x">>),
        Bookmark(110, 5, 200, 0, 30, 0, 0, <<"x">>)  >>

\* The ids each input collection is drawn from.  The collections overlap:
\* 7 is unread and of last year, 6 is unread and archived, 11 is of last
\* year and archived.
UnreadPool == 1..8
LastYearPool == {7, 9, 11}
ArchivedPool == {6, 10, 11}

\* The elements of a set of ids as a sequence, in increasing order.
RECURSIVE SeqOfSet(_)
SeqOfSet(S) ==
    IF S = {} THEN <<>>
    ELSE LET m == CHOOSE x \in S : \A y \in S : x <= y
         IN  <<m>> \o SeqOfSet(S \ {m})

Collections(pool, n) ==
    { SeqOfSet(S) : S \in { T \in SUBSET pool : Cardinality(T) <= n } }

\* The scenario of ten unread bookmarks that all carry tag "x": the unread
\* collection is 12..21 (three of them carry "y" too) or 14 and 16..24 (two
\* do); fetchThisMonthLastYear returned the bookmarks created in this month
\* of last year, or nothing; one bookmark is archived, or none.
TenTaggedInputs ==
    { <<bms, ly, ar>> : bms \in {SeqOfSet(12..21), SeqOfSet({14} \cup (16..24))},
                        ly \in {<<>>, <<20, 21>>},
                        ar \in {<<>>, <<10>>} }

\* The arguments categorize is called with.
CatInputs ==
    (Collections(UnreadPool, MaxUnread) \X Collections(LastYearPool, MaxLastYear)
        \X Collections(ArchivedPool, MaxArchived))
      \cup TenTaggedInputs

\* b.content?.htmlContent || b.content?.text || "", its length.
ContentTextLength(b) ==
    IF Store[b].htmlContent > 0 THEN Store[b].htmlContent ELSE Store[b].text

SufficientContentOnly(b) == ContentTextLength(b) >= MIN_CONTENT_LENGTH

\* The test of filterSufficientContent.
SufficientContent(b) ==
    \/ ContentTextLength(b) >= MIN_CONTENT_LENGTH
    \/ Store[b].summary >= MIN_CONTENT_LENGTH

\* Removing the failing elements from the array while walking it: the
\* element after a removed one is never tested.
RECURSIVE filterBySplicing(_)
filterBySplicing(bms) ==
    IF bms = <<>> THEN <<>>
    ELSE IF SufficientContent(Head(bms)) THEN <<Head(bms)>> \o filterBySplicing(Tail(bms))
    ELSE IF Tail(bms) = <<>> THEN <<>>
    ELSE <<Head(Tail(bms))>> \o filterBySplicing(Tail(Tail(bms)))

filterSufficientContent(bms) == SelectSeq(bms, SufficientContent)

Range(f) == { f[i] : i \in DOMAIN f }

\* array.filter((b) => !usedIds.has(b.id))
Unused(bms, used) == SelectSeq(bms, LAMBDA b : b \notin used)

\* The arrays [...candidates].sort(() => Math.random() - 0.5).slice(0, count)
\* can give: the first count elements of any rearrangement of candidates.
ShuffledSlices(candidates, count) ==
    LET k == Min(count, Len(candidates))
        picks == { p \in [1..k -> 1..Len(candidates)] :
                     \A i, j \in 1..k : i # j => p[i] # p[j] }
    IN  { [i \in 1..k |-> candidates[p[i]]] : p \in picks }

SliceWhole(a, n) == a

\* array.slice(0, n)
Slice(a, n) == SubSeq(a, 1, Min(n, Len(a)))

RecentCandidatesOfAnyAge(valid) == valid

\* getRecentlySaved: the candidates
RecentCandidates(valid) ==
    SelectSeq(valid, LAMBDA b : Store[b].createdAt >= Now - RECENTLY_SAVED_DAYS)

BuriedCandidatesOfHistory(valid, used) ==
    SelectSeq(valid \o filterSufficientContent(lastYearBookmarks),
              LAMBDA b : b \notin used
                           /\ Store[b].createdAt < Now - BURIED_TREASURE_DAYS)

\* buriedCandidates
BuriedCandidates(valid, used) ==
    SelectSeq(valid, LAMBDA b : b \notin used
                                  /\ Store[b].createdAt < Now - BURIED_TREASURE_DAYS)

\* lastYearCandidates = [...validLastYear, ...validArchived].filter(unused)
LastYearCandidates(validLastYear, validArchived, used) ==
    Unused(validLastYear \o validArchived, used)

\* buildTagFrequencyMap: tagMap.get(tag), the bookmark once for each
\* occurrence of tag in its tag list, in the order of bms.
RECURSIVE Occurrences(_, _, _)
Occurrences(b, tag, i) ==
    IF i > Len(Store[b].tags) THEN <<>>
    ELSE (IF Store[b].tags[i] = tag THEN <<b>> ELSE <<>>) \o Occurrences(b, tag, i + 1)

RECURSIVE TagMapGet(_, _)
TagMapGet(bms, tag) ==
    IF bms = <<>> THEN <<>>
    ELSE Occurrences(Head(bms), tag, 1) \o TagMapGet(Tail(bms), tag)

\* The keys of tagMap.
TagMapKeys(bms) == UNION { Range(Store[b].tags) : b \in Range(bms) }

\* findTopTag: the qualifying tags with their bookmarks; it returns any one
\* of them, or null when there is none.
QualifyingTags(bms, used) ==
    { [present |-> TRUE, tag |-> t,
       bookmarks |-> Slice(Unused(TagMapGet(bms, t), used), MAX_ITEMS_PER_SECTION)] :
        t \in { u \in TagMapKeys(bms) :
                  Len(Unused(TagMapGet(bms, u), used)) >= MIN_TAG_ITEMS } }

\* Only a tag of the longest list is returned.
findMostUsedTag(bms, used) ==
    LET most == { q \in QualifyingTags(bms, used) :
                    \A r \in QualifyingTags(bms, used) :
                       Len(TagMapGet(bms, r.tag)) <= Len(TagMapGet(bms, q.tag)) }
    IN  IF most = {} THEN {NoRoundup} ELSE most

findTopTag(bms, used) ==
    IF QualifyingTags(bms, used) = {} THEN {NoRoundup} ELSE QualifyingTags(bms, used)

FirstElementOrNull(a) == IF Len(a) > 0 THEN {a[1]} ELSE {NoBookmark}

\* array.length > 0 ? array[Math.floor(Math.random() * array.length)] : null
RandomElementOrNull(a) == IF Len(a) > 0 THEN Range(a) ELSE {NoBookmark}

validBookmarks == filterSufficientContent(bookmarks)
validLastYear == filterSufficientContent(lastYearBookmarks)
validArchived == filterSufficientContent(archivedBookmarks)

\* categorize(bms, lastYear, archived) is called.
CatCall ==
    /\ catPc = "idle"
    /\ \E args \in CatInputs :
          /\ bookmarks' = args[1]
          /\ lastYearBookmarks' = args[2]
          /\ archivedBookmarks' = args[3]
    /\ usedIds' = {}
    /\ catPc' = "recentlySaved"
    /\ UNCHANGED <<recentlySaved, buriedTreasure, thisMonthLastYear, tagRoundup,
                   randomPick, fromTheArchives, totalUnread>>
    /\ UNCHANGED notCat

CatRecentlySaved ==
    /\ catPc = "recentlySaved"
    /\ \E sel \in ShuffledSlices(RecentCandidates(validBookmarks), RECENTLY_SAVED_COUNT) :
          /\ recentlySaved' = sel
          /\ usedIds' = usedIds \cup Range(sel)
    /\ catPc' = "buriedTreasure"
    /\ UNCHANGED <<bookmarks, lastYearBookmarks, archivedBookmarks, buriedTreasure,
                   thisMonthLastYear, tagRoundup, randomPick, fromTheArchives,
                   totalUnread>>
    /\ UNCHANGED notCat

CatBuriedTreasure ==
    /\ catPc = "buriedTreasure"
    /\ \E sel \in ShuffledSlices(BuriedCandidates(validBookmarks, usedIds),
                                 BURIED_TREASURE_COUNT) :
          /\ buriedTreasure' = sel
          /\ usedIds' = usedIds \cup Range(sel)
    /\ catPc' = "thisMonthLastYear"
    /\ UNCHANGED <<bookmarks, lastYearBookmarks, archivedBookmarks, recentlySaved,
                   thisMonthLastYear, tagRoundup, randomPick, fromTheArchives,
                   totalUnread>>
    /\ UNCHANGED notCat

CatThisMonthLastYear ==
    /\ catPc = "thisMonthLastYear"
    /\ \E sel \in ShuffledSlices(
                    LastYearCandidates(validLastYear, validArchived, usedIds),
                    THIS_MONTH_LAST_YEAR_COUNT) :
          /\ thisMonthLastYear' = sel
          /\ usedIds' = usedIds \cup Range(sel)
    /\ catPc' = "tagRoundup"
    /\ UNCHANGED <<bookmarks, lastYearBookmarks, archivedBookmarks, recentlySaved,
                   buriedTreasure, tagRoundup, randomPick, fromTheArchives,
                   totalUnread>>
    /\ UNCHANGED notCat

CatTagRoundup ==
    /\ catPc = "tagRoundup"
    /\ \E top \in findTopTag(validBookmarks, usedIds) :
          /\ tagRoundup' = top
          /\ usedIds' = usedIds \cup Range(top.bookmarks)
    /\ catPc' = "randomPick"
    /\ UNCHANGED <<bookmarks, lastYearBookmarks, archivedBookmarks, recentlySaved,
                   buriedTreasure, thisMonthLastYear, randomPick, fromTheArchives,
                   totalUnread>>
    /\ UNCHANGED notCat

\* The random pick is not added to usedIds.
CatRandomPick ==
    /\ catPc = "randomPick"
    /\ randomPick' \in RandomElementOrNull(Unused(validBookmarks, usedIds))
    /\ catPc' = "fromTheArchives"
    /\ UNCHANGED <<bookmarks, lastYearBookmarks, archivedBookmarks, usedIds,
                   recentlySaved, buriedTreasure, thisMonthLastYear, tagRoundup,
                   fromTheArchives, totalUnread>>
    /\ UNCHANGED notCat

\* The last section, and the return: stats.totalUnread = bookmarks.length.
CatFromTheArchives ==
    /\ catPc = "fromTheArchives"
    /\ fromTheArchives' \in RandomElementOrNull(Unused(validArchived, usedIds))
    /\ totalUnread' = Len(bookmarks)
    /\ catPc' = "done"
    /\ UNCHANGED <<bookmarks, lastYearBookmarks, archivedBookmarks, usedIds,
                   recentlySaved, buriedTreasure, thisMonthLastYear, tagRoundup,
                   randomPick>>
    /\ UNCHANGED notCat

CatInit == CatIdle /\ ApiStart /\ PoolIdle /\ SumIdle /\ OthersIdle

CatNext ==
    \/ CatCall
    \/ CatRecentlySaved
    \/ CatBuriedTreasure
    \/ CatThisMonthLastYear
    \/ CatTagRoundup
    \/ CatRandomPick
    \/ CatFromTheArchives

SpecCat == CatInit /\ [][CatNext]_vars

(***************************************************************************)
(*                        Properties of categorize                         *)
(***************************************************************************)

\* The identifiers of each of the six outputs.
OneOrNone(b) == IF b = NoBookmark THEN {} ELSE {b}
SectionIds ==
    << Range(recentlySaved), Range(buriedTreasure), Range(thisMonthLastYear),
       Range(tagRoundup.bookmarks), OneOrNone(randomPick), OneOrNone(fromTheArchives) >>

\* All the identifiers categorize has put out, section after section.
OutputIds ==
    recentlySaved \o buriedTreasure \o thisMonthLastYear \o tagRoundup.bookmarks
      \o (IF randomPick = NoBookmark THEN <<>> ELSE <<randomPick>>)
      \o (IF fromTheArchives = NoBookmark THEN <<>> ELSE <<fromTheArchives>>)

\* C1: exclusivity: the identifier sets of recentlySaved, buriedTreasure,
\* thisMonthLastYear, tagRoundup's items, randomPick and fromTheArchives are
\* pairwise disjoint, for any three input collections.
C1_SectionsDisjoint ==
    \A i, j \in 1..6 : i # j => SectionIds[i] \cap SectionIds[j] = {}

\* C2: the output of categorize holds no identifier more than once: the
\* sections are disjoint and no list-valued section repeats an identifier.
C2_NoDuplicateIds ==
    \A i, j \in DOMAIN OutputIds : i # j => OutputIds[i] # OutputIds[j]

\* The identifiers used when the tag roundup is computed, and the distinct
\* unused bookmarks that carry tag t then.
UsedBeforeRoundup ==
    Range(recentlySaved) \cup Range(buriedTreasure) \cup Range(thisMonthLastYear)
TagCarriers(t) ==
    { b \in Range(validBookmarks) \ UsedBeforeRoundup : t \in Range(Store[b].tags) }
RoundupComputed == catPc \in {"randomPick", "fromTheArchives", "done"}

\* C12: the tag of tagRoundup is carried by at least 3 distinct bookmarks
\* that were still unused when it was chosen, and tagRoundup is null when
\* every tag is carried by at most 2 still-unused bookmarks.
C12_TagRoundupMinimum ==
    RoundupComputed =>
        /\ tagRoundup.present => Cardinality(TagCarriers(tagRoundup.tag)) >= 3
        /\ (\A t \in TagMapKeys(validBookmarks) : Cardinality(TagCarriers(t)) <= 2)
              => ~tagRoundup.present

\* The unread collection holds 10 bookmarks with content enough that all
\* carry tag "x".
TenTagged ==
    /\ Len(bookmarks) = 10
    /\ \A b \in Range(bookmarks) : SufficientContent(b) /\ "x" \in Range(Store[b].tags)

RoundupOfX ==
    /\ tagRoundup.present
    /\ tagRoundup.tag = "x"
    /\ Len(tagRoundup.bookmarks) \in 3..5

HistoryApart ==
    Range(lastYearBookmarks \o archivedBookmarks) \cap Range(bookmarks) = {}
OnlyXQualifies ==
    \A t \in TagMapKeys(bookmarks) \ {"x"} : Len(TagMapGet(bookmarks, t)) < 3

PlacedIds ==
    Range(recentlySaved) \cup Range(buriedTreasure) \cup Range(thisMonthLastYear)
      \cup Range(tagRoundup.bookmarks) \cup OneOrNone(randomPick)
      \cup OneOrNone(fromTheArchives)

\* The last section is computed by the step that returns.
LastSectionPlaced == catPc = "done"

\* C20: within one categorize call usedIds only grows, and every bookmark
\* placed in a section is in usedIds before the next section is computed,
\* so that no later section can take it.
C20_UsedIdsMonotonic ==
    /\ [][usedIds \subseteq usedIds']_vars
    /\ [](~LastSectionPlaced => PlacedIds \subseteq usedIds)

\* thisMonthLastYear has been computed, and the identifiers that were used
\* when it was.
LastYearComputed == catPc \in {"tagRoundup", "randomPick", "fromTheArchives", "done"}
UsedBeforeLastYear == Range(recentlySaved) \cup Range(buriedTreasure)

\* C21: every bookmark of thisMonthLastYear is one of the content-filtered
\* same-month-of-last-year collection, and the section holds min(3, number
\* of still-unused bookmarks of that collection) bookmarks.
C21_LastYearFromItsCollection ==
    LastYearComputed =>
        /\ Range(thisMonthLastYear) \subseteq Range(validLastYear)
        /\ Len(thisMonthLastYear) =
              Min(3, Len(Unused(validLastYear, UsedBeforeLastYear)))

\* The unread bookmarks with content enough that were created within the
\* last 30 days.
RecentlyCreated ==
    { b \in Range(bookmarks) : SufficientContent(b) /\ Store[b].createdAt >= Now - 30 }
RecentComputed == catPc \notin {"idle", "recentlySaved"}

\* C23: recentlySaved holds only unread bookmarks with content enough that
\* were created within the last 30 days, and min(3, number of such
\* bookmarks) of them: all of them when fewer than 3 qualify.
C23_RecentlySavedSelection ==
    RecentComputed =>
        /\ Range(recentlySaved) \subseteq RecentlyCreated
        /\ Len(recentlySaved) = Min(3, Cardinality(RecentlyCreated))
        /\ Cardinality(RecentlyCreated) < 3 => Range(recentlySaved) = RecentlyCreated

\* Two of the unread bookmarks qualify and both are selected, while an older
\* one and one of too little content are left out.
C23_Witness ==
    /\ RecentComputed
    /\ Cardinality(RecentlyCreated) = 2
    /\ Range(recentlySaved) = RecentlyCreated
    /\ \E b \in Range(bookmarks) : SufficientContent(b) /\ Store[b].createdAt < Now - 30
    /\ \E b \in Range(bookmarks) : ~SufficientContent(b)

\* The unread bookmarks with content enough, not in recentlySaved, that were
\* created 30 or more days ago.
BuriedComputed == catPc \notin {"idle", "recentlySaved", "buriedTreasure"}
ThirtyDaysOrOlder ==
    { b \in Range(bookmarks) \ Range(recentlySaved) :
        SufficientContent(b) /\ Store[b].createdAt <= Now - 30 }

\* C24: buriedTreasure holds only still-unused unread bookmarks with content
\* enough that were created 30 or more days ago, exactly 30 days included,
\* and min(3, number of such bookmarks) of them.
C24_BuriedTreasureSelection ==
    BuriedComputed =>
        /\ Range(buriedTreasure) \subseteq ThirtyDaysOrOlder
        /\ Len(buriedTreasure) = Min(3, Cardinality(ThirtyDaysOrOlder))

\* The tags that at least 3 still-unused bookmarks carry.
TagsOfThree ==
    { t \in TagMapKeys(validBookmarks) : Cardinality(TagCarriers(t)) >= 3 }

PickComputed == catPc \in {"fromTheArchives", "done"}
LeftForPick ==
    Range(validBookmarks)
       \ (UsedBeforeRoundup \cup Range(tagRoundup.bookmarks))

\* C26: randomPick is absent exactly when recentlySaved, buriedTreasure,
\* thisMonthLastYear and tagRoundup have left no unread bookmark with
\* content enough unused; otherwise it is one of those left, and each of
\* them can be the one picked.
C26_RandomPickSelection ==
    /\ PickComputed =>
          /\ randomPick = NoBookmark <=> LeftForPick = {}
          /\ randomPick # NoBookmark => randomPick \in LeftForPick
    /\ catPc = "randomPick" =>
          \A b \in LeftForPick : ENABLED (CatRandomPick /\ randomPick' = b)

\* Two bookmarks were left and the second of them was picked.
C26_Witness ==
    /\ PickComputed
    /\ Cardinality(LeftForPick) = 2
    /\ randomPick \in LeftForPick
    /\ \A b \in LeftForPick : b <= randomPick

\* The archived bookmarks with content enough that the five earlier
\* sections, randomPick included, have left unused.
LeftForArchives ==
    Range(validArchived)
       \ (UsedBeforeRoundup \cup Range(tagRoundup.bookmarks) \cup OneOrNone(randomPick))

\* C27: fromTheArchives is absent exactly when the five earlier sections,
\* randomPick included, have left no archived bookmark with content enough
\* unused; otherwise it is one of those left.
C27_FromTheArchivesSelection ==
    catPc = "done" =>
        /\ fromTheArchives = NoBookmark <=> LeftForArchives = {}
        /\ fromTheArchives # NoBookmark => fromTheArchives \in LeftForArchives

(***************************************************************************)
(*            Content sufficiency filter: filterSufficientContent          *)
(***************************************************************************)

\* Bound of the filter's input: the length of the array.
MaxFilterLen == 3

\* The bookmarks the arrays are made of: with html content of 200, 150 and
\* 120 characters (1, 4, 9), with text only (10), with a summary only (3),
\* and with a short html content, a long text and a short summary (8).
FilterPool == {1, 3, 4, 8, 9, 10}

FilterInputs == UNION { [1..n -> FilterPool] : n \in 0..MaxFilterLen }

\* filterSufficientContent(input) is called: Array.prototype.filter returns
\* a new array and leaves the one it is called on as it is.
FilterCall ==
    /\ filterOutputs = <<>>
    /\ \E input \in FilterInputs :
          /\ filterInput' = input
          /\ filterArray' = input
          /\ filterOutputs' = <<filterSufficientContent(input)>>
    /\ UNCHANGED notFilter

\* filterSufficientContent is called on the array it returned.
FilterAgain ==
    /\ Len(filterOutputs) = 1
    /\ filterOutputs' = Append(filterOutputs, filterSufficientContent(filterOutputs[1]))
    /\ UNCHANGED <<filterInput, filterArray>>
    /\ UNCHANGED notFilter

FilterInit ==
    /\ FilterIdle /\ RunIdle /\ ApiStart /\ PoolIdle /\ CatIdle /\ SumIdle
    /\ TruncIdle /\ ScoreIdle

FilterNext == FilterCall \/ FilterAgain

SpecFilter == FilterInit /\ [][FilterNext]_vars

\* The items of bms that pass, in the order of bms: those whose content
\* (htmlContent, or text when there is no htmlContent) or whose summary has
\* at least MIN_CONTENT_LENGTH characters.
RECURSIVE PassingSubsequence(_)
PassingSubsequence(bms) ==
    IF bms = <<>> THEN <<>>
    ELSE LET b == Head(bms)
             content == IF Store[b].htmlContent > 0 THEN Store[b].htmlContent
                        ELSE Store[b].text
         IN  (IF content >= MIN_CONTENT_LENGTH \/ Store[b].summary >= MIN_CONTENT_LENGTH
              THEN <<b>> ELSE <<>>) \o PassingSubsequence(Tail(bms))

\* C15: filterSufficientContent returns exactly the subsequence, in input
\* order, of the items whose content or whose summary has at least the
\* minimum length, and leaves its input as it was.
C15_FilterSubsequence ==
    Len(filterOutputs) >= 1 =>
        /\ filterOutputs[1] = PassingSubsequence(filterInput)
        /\ filterArray = filterInput

\* The filter has dropped an item from between two items it kept, one kept
\* for its summary alone.
C15_Witness ==
    /\ Len(filterOutputs) >= 1
    /\ filterInput = <<10, 8, 3>>
    /\ filterOutputs[1] = <<10, 3>>

\* C16: applying filterSufficientContent to its own output returns that
\* output unchanged.
C16_FilterIdempotent ==
    Len(filterOutputs) = 2 => filterOutputs[2] = filterOutputs[1]

\* The filter was applied to an output that is shorter than the input.
C16_Witness ==
    /\ Len(filterOutputs) = 2
    /\ Len(filterOutputs[1]) >= 1
    /\ Len(filterOutputs[1]) < Len(filterInput)
    /\ filterOutputs[2] = filterOutputs[1]

\* C19: filterSufficientContent excludes every bookmark whose content and
\* whose summary are both shorter than 200 characters.
C19_ExcludesBelow200 ==
    Len(filterOutputs) >= 1 =>
        \A b \in Range(filterOutputs[1]) :
            ~(ContentTextLength(b) < 200 /\ Store[b].summary < 200)

(***************************************************************************)
(*               Summarization stage: summarizeSections                    *)
(***************************************************************************)

MAX_CONCURRENT == 5

\* Bound of summarizeSections' input: the number of items in all sections.
MaxDigestItems == 4

\* The bookmarks the sections of the model are filled with, in this order.
DigestOrder == <<3, 4, 2, 1, 11, 10, 5, 6, 7, 9>>

SubArray(a, from, n) == SubSeq(a, from + 1, from + n)

\* A DigestSections value: n1, n2, n3 and nt bookmarks in the four lists (nt
\* = 0: no tag roundup), r and a (0 or 1) in randomPick and fromTheArchives;
\* its stats count the unread bookmarks selected and are dated Now.
MakeSections(n1, n2, n3, nt, r, a) ==
    [recentlySaved |-> SubArray(DigestOrder, 0, n1),
     buriedTreasure |-> SubArray(DigestOrder, n1, n2),
     thisMonthLastYear |-> SubArray(DigestOrder, n1 + n2, n3),
     tagRoundup |-> IF nt = 0 THEN NoRoundup
                    ELSE [present |-> TRUE, tag |-> "x",
                          bookmarks |-> SubArray(DigestOrder, n1 + n2 + n3, nt)],
     randomPick |-> IF r = 0 THEN NoBookmark ELSE DigestOrder[n1 + n2 + n3 + nt + 1],
     fromTheArchives |-> IF a = 0 THEN NoBookmark
                         ELSE DigestOrder[n1 + n2 + n3 + nt + r + 1],
     stats |-> [totalUnread |-> n1 + n2 + n3 + nt + r, generatedAt |-> Now]]

\* The sections categorize can hand over: the lists within their counts, a
\* tag roundup of MIN_TAG_ITEMS to MAX_ITEMS_PER_SECTION bookmarks or none.
SumInputs ==
    { MakeSections(c[1], c[2], c[3], c[4], c[5], c[6]) :
        c \in { d \in (0..RECENTLY_SAVED_COUNT) \X (0..BURIED_TREASURE_COUNT)
                      \X (0..THIS_MONTH_LAST_YEAR_COUNT)
                      \X ({0} \cup (MIN_TAG_ITEMS..MAX_ITEMS_PER_SECTION))
                      \X (0..1) \X (0..1) :
                  d[1] + d[2] + d[3] + d[4] + d[5] + d[6]
                      <= Min(MaxDigestItems, Len(DigestOrder)) } }

\* The strings of a bookmark, and the literals of the summarizer.
SummaryOf(b) == Str("summary", b, Store[b].summary)
TitleOf(b) == Str("title", b, Store[b].title)
Placeholder == Str("No summary available", 0, 20)
Untitled == Str("Untitled", 0, 8)
AiText(b) == Str("summary field of the response", b, 80)

\* a || b, on strings: a unless it is undefined or "".
Or(a, b) == IF a.len > 0 THEN a ELSE b

FallbackTitleFirst(b) == Or(TitleOf(b), Or(SummaryOf(b), Placeholder))

\* bookmark.summary || bookmark.title || "No summary available"
Fallback(b) == Or(SummaryOf(b), Or(TitleOf(b), Placeholder))

\* What one provider.complete call can do: throw, or return a text that is
\* not JSON, that is malformed JSON, or that is JSON: null, a value without
\* a summary field, an object with a summary.
LLMOutcomes ==
    {"throws", "non-JSON text", "malformed JSON", "JSON null",
     "JSON without summary", "JSON with summary"}

\* The try block of summarizeArticle / synthesizeCluster throws.
TryThrows(o) == o \in {"throws", "non-JSON text", "malformed JSON"}

\* summarizeArticle: whether the value it returns is null, and the summary
\* field of that value.
summarizeArticle(b, o) ==
    IF TryThrows(o) THEN [isNull |-> FALSE, summary |-> Fallback(b)]
    ELSE IF o = "JSON null" THEN [isNull |-> TRUE, summary |-> Undefined]
    ELSE IF o = "JSON with summary" THEN [isNull |-> FALSE, summary |-> AiText(b)]
    ELSE [isNull |-> FALSE, summary |-> Undefined]

\* A content string: its length and its number of words.
NoContent == [len |-> 0, words |-> 0]

\* The asset contents of the store, by asset id.
Assets == << [len |-> 6000, words |-> 1000], [len |-> 200000, words |-> 30000] >>

\* What the asset request of fetchBookmarkContent can do: fetch rejects, the
\* response is not ok, response.text() rejects, or the body is read.
FetchOutcomes == {"network failure", "status 404", "status 500", "body read fails", "ok"}

\* What a fetchBookmarkContent call comes to: whether it throws, whether
\* its asset request failed, and the content it returns (NoContent: null).
ContentResult(raised, failed, content) ==
    [raised |-> raised, failed |-> failed, content |-> content]

fetchBookmarkContentUncaught(b, f) ==
    IF Store[b].htmlContent > 0
    THEN ContentResult(FALSE, FALSE,
                       [len |-> Store[b].htmlContent, words |-> Store[b].words])
    ELSE IF Store[b].contentAssetId = 0 THEN ContentResult(FALSE, FALSE, NoContent)
    ELSE IF f = "ok" THEN ContentResult(FALSE, FALSE, Assets[Store[b].contentAssetId])
    ELSE IF f \in {"status 404", "status 500"} THEN ContentResult(FALSE, TRUE, NoContent)
    ELSE ContentResult(TRUE, TRUE, NoContent)

\* fetchBookmarkContent, its asset request doing f.
fetchBookmarkContent(b, f) ==
    IF Store[b].htmlContent > 0
    THEN ContentResult(FALSE, FALSE,
                       [len |-> Store[b].htmlContent, words |-> Store[b].words])
    ELSE IF Store[b].contentAssetId = 0 THEN ContentResult(FALSE, FALSE, NoContent)
    ELSE IF f = "ok" THEN ContentResult(FALSE, FALSE, Assets[Store[b].contentAssetId])
    ELSE ContentResult(FALSE, TRUE, NoContent)

\* fetchedContent || bookmark.content?.htmlContent || bookmark.content?.text
RawContent(b, fetched) ==
    IF fetched.len > 0 THEN fetched
    ELSE IF Store[b].htmlContent > 0
    THEN [len |-> Store[b].htmlContent, words |-> Store[b].words]
    ELSE IF Store[b].text > 0 THEN [len |-> Store[b].text, words |-> Store[b].words]
    ELSE NoContent

\* estimateReadTime
estimateReadTime(content) ==
    IF content.len = 0 THEN 1
    ELSE LET minutes == (content.words + 237) \div 238
         IN  IF minutes < 1 THEN 1 ELSE IF minutes > 90 THEN 90 ELSE minutes

\* The SummarizedBookmark toSummarizedBookmark returns.
Summarized(b, summary, fetched) ==
    [id |-> b, aiSummary |-> summary,
     readTime |-> IF RawContent(b, fetched).len > 0
                  THEN estimateReadTime(RawContent(b, fetched)) ELSE 0]

\* The fallback lists the titles of all the bookmarks.
synthesizeClusterAllTitles(tag, bms, o) ==
    IF TryThrows(o)
    THEN [kind |-> "fallback", count |-> Len(bms), tag |-> tag,
          keyInsights |-> [i \in 1..Len(bms) |-> Or(TitleOf(bms[i]), Untitled)],
          standout |-> IF Len(bms) > 0
                       THEN Or(TitleOf(bms[1]), Str("the first article", 0, 17))
                       ELSE Str("the first article", 0, 17)]
    ELSE [kind |-> o, count |-> 0, tag |-> "", keyInsights |-> <<>>, standout |-> Undefined]

\* synthesizeCluster: the record it returns.
synthesizeCluster(tag, bms, o) ==
    IF TryThrows(o)
    THEN [kind |-> "fallback", count |-> Len(bms), tag |-> tag,
          keyInsights |-> [i \in 1..Min(3, Len(bms)) |-> Or(TitleOf(bms[i]), Untitled)],
          standout |-> IF Len(bms) > 0
                       THEN Or(TitleOf(bms[1]), Str("the first article", 0, 17))
                       ELSE Str("the first article", 0, 17)]
    ELSE [kind |-> o, count |-> 0, tag |-> "", keyInsights |-> <<>>, standout |-> Undefined]

\* A toSummarizedBookmark call: awaiting summarizeArticle ("complete"), then
\* awaiting fetchBookmarkContent ("fetchContent").
FnStart(b) == [stage |-> "complete", bookmark |-> b, isNull |-> FALSE, summary |-> Undefined]
FnOver == [stage |-> "over", bookmark |-> NoBookmark, isNull |-> FALSE, summary |-> Undefined]

ListPhases == {"recentlySaved", "buriedTreasure", "thisMonthLastYear", "tagRoundup"}
SinglePhases == {"randomPick", "fromTheArchives"}

PhaseItems(secs, p) == IF p = "tagRoundup" THEN secs.tagRoundup.bookmarks ELSE secs[p]

\* The await that follows the one of phase p.
AfterPick(secs) == IF secs.fromTheArchives # NoBookmark THEN "fromTheArchives" ELSE "done"
AfterTag(secs) == IF secs.randomPick # NoBookmark THEN "randomPick" ELSE AfterPick(secs)
\* The synthesis is awaited whether there is a tag roundup or not.
PhaseAfterSynthesisAlways(secs, p) ==
    CASE p = "recentlySaved" -> "buriedTreasure"
      [] p = "buriedTreasure" -> "thisMonthLastYear"
      [] p = "thisMonthLastYear" -> IF secs.tagRoundup.present THEN "tagRoundup"
                                    ELSE "synthesis"
      [] p = "tagRoundup" -> "synthesis"
      [] p = "synthesis" -> AfterTag(secs)
      [] p = "randomPick" -> AfterPick(secs)
      [] p = "fromTheArchives" -> "done"

PhaseAfter(secs, p) ==
    CASE p = "recentlySaved" -> "buriedTreasure"
      [] p = "buriedTreasure" -> "thisMonthLastYear"
      [] p = "thisMonthLastYear" -> IF secs.tagRoundup.present THEN "tagRoundup"
                                    ELSE AfterTag(secs)
      [] p = "tagRoundup" -> "synthesis"
      [] p = "synthesis" -> AfterTag(secs)
      [] p = "randomPick" -> AfterPick(secs)
      [] p = "fromTheArchives" -> "done"

\* The provider.complete calls entering phase q starts without the pool.
StartsCall(q) == IF q \in SinglePhases \cup {"synthesis"} THEN 1 ELSE 0
DirectCall(secs, q) == IF q \in SinglePhases THEN (0 :> FnStart(secs[q])) ELSE <<>>

LogCall(log, b, o) ==
    [i \in (DOMAIN log) \cup {b} |->
        IF i = b THEN (IF b \in DOMAIN log THEN Append(log[b], o) ELSE <<o>>)
        ELSE log[i]]

\* The synthesis call is started together with the pool of the roundup.
PoolCallsWithSynthesis(its) ==
    WorkerCount(MAX_CONCURRENT, Len(its))
      + (IF sections.tagRoundup.present /\ its = sections.tagRoundup.bookmarks
         THEN 1 ELSE 0)

\* The provider.complete calls under way when mapWithConcurrency reaches
\* its await: one for each worker.
PoolCallsStarted(its) == WorkerCount(MAX_CONCURRENT, Len(its))

\* await mapWithConcurrency(its, (b) => toSummarizedBookmark(provider, b),
\* MAX_CONCURRENT), up to the await: each worker has called
\* toSummarizedBookmark, which awaits provider.complete.
BeginPool(its) ==
    /\ PoolCall(its, MAX_CONCURRENT)
    /\ fnState' = [w \in 1..WorkerCount(MAX_CONCURRENT, Len(its)) |-> FnStart(its[w])]
    /\ llmInFlight' = llmInFlight + PoolCallsStarted(its)

\* The digest is returned with the stats it was initialized with.
ReturnValueWithoutStats(d, secs) == d

\* The value summarizeSections returns: the summarized sections d, and
\* stats: sections.stats.
ReturnValue(d, secs) == [d EXCEPT !.stats = secs.stats]

\* The summarized sections when the await q follows: the value returned
\* when none does.
DigestAt(d, secs, q) == IF q = "done" THEN ReturnValue(d, secs) ELSE d

\* summarizeSections(secs) is called, secs one of inputs.
SumCallOn(inputs) ==
    /\ sumPc = "idle"
    /\ \E secs \in inputs :
          /\ sections' = secs
          /\ BeginPool(secs.recentlySaved)
    /\ sumPc' = "recentlySaved"
    /\ digest' = EmptyDigest
    /\ llmLog' = <<>>
    /\ UNCHANGED <<fetchRaised, fetchFailed>>
    /\ UNCHANGED notSum

AfterCompleteRetrying(log, b, o) ==
    IF TryThrows(o) /\ b \notin DOMAIN log THEN "complete" ELSE "fetchContent"

\* What toSummarizedBookmark awaits once summarizeArticle has returned,
\* whatever its provider.complete call did: fetchBookmarkContent.
AfterComplete(log, b, o) == "fetchContent"

\* The provider.complete call of a toSummarizedBookmark settles with o:
\* summarizeArticle returns, and fetchBookmarkContent is awaited.
SumLlmSettlesTo(outcomes) ==
    /\ \E w \in DOMAIN fnState, o \in outcomes :
          /\ fnState[w].stage = "complete"
          /\ fnState' = [fnState EXCEPT ![w] =
                 [stage |-> AfterComplete(llmLog, fnState[w].bookmark, o),
                  bookmark |-> fnState[w].bookmark,
                  isNull |-> summarizeArticle(fnState[w].bookmark, o).isNull,
                  summary |-> summarizeArticle(fnState[w].bookmark, o).summary]]
          /\ llmLog' = LogCall(llmLog, fnState[w].bookmark, o)
    /\ llmInFlight' = llmInFlight - 1
    /\ UNCHANGED <<sumPc, sections, digest, fetchRaised, fetchFailed>>
    /\ UNCHANGED poolVars
    /\ UNCHANGED notSum

\* fetchBookmarkContent settles for a pooled toSummarizedBookmark, which
\* returns its result (it throws reading summary.summary of null); the
\* worker stores it and goes round its loop.
SumWorkerFetchSettlesTo(fetches) ==
    /\ \E w \in DOMAIN fnState \ {0} :
          /\ fnState[w].stage = "fetchContent"
          /\ \E f \in fetches :
             LET c == fetchBookmarkContent(fnState[w].bookmark, f) IN
                /\ fetchRaised' = (fetchRaised \/ c.raised)
                /\ fetchFailed' = (fetchFailed \/ c.failed)
                /\ IF c.raised \/ fnState[w].isNull
                   THEN /\ WorkerReject(w)
                        /\ fnState' = [fnState EXCEPT ![w] = FnOver]
                        /\ UNCHANGED llmInFlight
                   ELSE
                     /\ WorkerResolve(w, Summarized(fnState[w].bookmark,
                                                     fnState[w].summary, c.content))
                     /\ IF Len(queue) > 0
                        THEN /\ fnState' = [fnState EXCEPT ![w] = FnStart(Head(queue).item)]
                             /\ llmInFlight' = llmInFlight + 1
                        ELSE /\ fnState' = [fnState EXCEPT ![w] = FnOver]
                             /\ UNCHANGED llmInFlight
    /\ UNCHANGED <<sumPc, sections, digest, llmLog>>
    /\ UNCHANGED notSum

\* await mapWithConcurrency(...) settles in summarizeSections: a rejection
\* rejects summarizeSections; otherwise the section is kept and the next
\* await is reached.
SumPoolSettles ==
    /\ sumPc \in ListPhases
    /\ poolPc = "running"
    /\ PoolOutcome # "pending"
    /\ IF PoolOutcome = "rejected"
       THEN /\ PromiseAllSettles
            /\ sumPc' = "rejected"
            /\ UNCHANGED <<digest, fnState, llmInFlight>>
       ELSE LET q == PhaseAfter(sections, sumPc)
            IN  /\ digest' = DigestAt(
                        IF sumPc = "tagRoundup"
                        THEN [digest EXCEPT !.tagRoundup.bookmarks = ArrayOf(results)]
                        ELSE [digest EXCEPT ![sumPc] = ArrayOf(results)],
                        sections, q)
                /\ sumPc' = q
                /\ IF q \in ListPhases
                   THEN BeginPool(PhaseItems(sections, q))
                   ELSE /\ PromiseAllSettles
                        /\ fnState' = DirectCall(sections, q)
                        /\ llmInFlight' = llmInFlight + StartsCall(q)
    /\ UNCHANGED <<sections, llmLog, fetchRaised, fetchFailed>>
    /\ UNCHANGED notSum

\* The provider.complete call of synthesizeCluster settles with o.
SumSynthesisSettlesTo(outcomes) ==
    /\ sumPc = "synthesis"
    /\ \E o \in outcomes :
          /\ digest' = DigestAt([digest EXCEPT !.tagRoundup =
                 [present |-> TRUE, tag |-> sections.tagRoundup.tag,
                  bookmarks |-> digest.tagRoundup.bookmarks,
                  synthesis |-> synthesizeCluster(sections.tagRoundup.tag,
                                                  sections.tagRoundup.bookmarks, o)]],
                 sections, PhaseAfter(sections, sumPc))
          /\ llmLog' = LogCall(llmLog, 0, o)
    /\ sumPc' = PhaseAfter(sections, sumPc)
    /\ fnState' = DirectCall(sections, PhaseAfter(sections, sumPc))
    /\ llmInFlight' = (llmInFlight - 1) + StartsCall(PhaseAfter(sections, sumPc))
    /\ UNCHANGED <<sections, fetchRaised, fetchFailed>>
    /\ UNCHANGED poolVars
    /\ UNCHANGED notSum

\* fetchBookmarkContent settles for the toSummarizedBookmark of randomPick
\* or fromTheArchives, which returns its result or throws.
SumDirectFetchSettlesTo(fetches) ==
    /\ sumPc \in SinglePhases
    /\ 0 \in DOMAIN fnState
    /\ fnState[0].stage = "fetchContent"
    /\ \E f \in fetches :
       LET c == fetchBookmarkContent(fnState[0].bookmark, f) IN
          /\ fetchRaised' = (fetchRaised \/ c.raised)
          /\ fetchFailed' = (fetchFailed \/ c.failed)
          /\ IF c.raised \/ fnState[0].isNull
             THEN /\ sumPc' = "rejected"
                  /\ fnState' = <<>>
                  /\ UNCHANGED <<digest, llmInFlight>>
             ELSE
               /\ digest' = DigestAt([digest EXCEPT ![sumPc] =
                      Summarized(fnState[0].bookmark, fnState[0].summary, c.content)],
                      sections, PhaseAfter(sections, sumPc))
               /\ sumPc' = PhaseAfter(sections, sumPc)
               /\ fnState' = DirectCall(sections, PhaseAfter(sections, sumPc))
               /\ llmInFlight' = llmInFlight + StartsCall(PhaseAfter(sections, sumPc))
    /\ UNCHANGED <<sections, llmLog>>
    /\ UNCHANGED poolVars
    /\ UNCHANGED notSum

\* The steps of summarizeSections for every input of up to MaxDigestItems
\* items, every outcome of a provider.complete call and of an asset request.
SumCall == SumCallOn(SumInputs)
SumLlmSettles == SumLlmSettlesTo(LLMOutcomes)
SumWorkerFetchSettles == SumWorkerFetchSettlesTo(FetchOutcomes)
SumSynthesisSettles == SumSynthesisSettlesTo(LLMOutcomes)
SumDirectFetchSettles == SumDirectFetchSettlesTo(FetchOutcomes)

SumInit == SumIdle /\ PoolIdle /\ ApiStart /\ CatIdle /\ OthersIdle

SumNext ==
    \/ SumCall
    \/ SumLlmSettles
    \/ SumWorkerFetchSettles
    \/ SumPoolSettles
    \/ SumSynthesisSettles
    \/ SumDirectFetchSettles

SpecSum == SumInit /\ [][SumNext]_vars

\* The largest selections: a tag roundup of MAX_ITEMS_PER_SECTION bookmarks
\* and all the other bookmarks of DigestOrder in the other sections.
FullInputs ==
    { MakeSections(c[1], c[2], c[3], MAX_ITEMS_PER_SECTION, c[4], c[5]) :
        c \in { d \in (0..RECENTLY_SAVED_COUNT) \X (0..BURIED_TREASURE_COUNT)
                      \X (0..THIS_MONTH_LAST_YEAR_COUNT) \X (0..1) \X (0..1) :
                  d[1] + d[2] + d[3] + d[4] + d[5] + MAX_ITEMS_PER_SECTION
                      = Len(DigestOrder) } }

\* What the calls do in the runs over the largest selections: a
\* provider.complete call returns null or returns a summary, and the asset
\* request succeeds.
FullLLMOutcomes == {"JSON null", "JSON with summary"}
FullFetchOutcomes == {"ok"}

SumFullCall == SumCallOn(FullInputs)
SumFullLlmSettles == SumLlmSettlesTo(FullLLMOutcomes)
SumFullWorkerFetchSettles == SumWorkerFetchSettlesTo(FullFetchOutcomes)
SumFullSynthesisSettles == SumSynthesisSettlesTo(FullLLMOutcomes)
SumFullDirectFetchSettles == SumDirectFetchSettlesTo(FullFetchOutcomes)

SumFullNext ==
    \/ SumFullCall
    \/ SumFullLlmSettles
    \/ SumFullWorkerFetchSettles
    \/ SumPoolSettles
    \/ SumFullSynthesisSettles
    \/ SumFullDirectFetchSettles

\* summarizeSections over the largest selections.
SpecSumFull == SumInit /\ [][SumFullNext]_vars

(***************************************************************************)
(*                 Properties of the summarization stage                   *)
(***************************************************************************)

\* The ids of a sequence of summarized bookmarks, in order.
IdsOf(list) == [i \in 1..Len(list) |-> list[i].id]

\* The summarized bookmarks of the digest.
DigestItems ==
    Range(digest.recentlySaved) \cup Range(digest.buriedTreasure)
        \cup Range(digest.thisMonthLastYear) \cup Range(digest.tagRoundup.bookmarks)
        \cup {r \in {digest.randomPick, digest.fromTheArchives} : r.id # NoBookmark}

\* The digest holds, section by section, the items of the sections.
DigestHoldsSections ==
    /\ IdsOf(digest.recentlySaved) = sections.recentlySaved
    /\ IdsOf(digest.buriedTreasure) = sections.buriedTreasure
    /\ IdsOf(digest.thisMonthLastYear) = sections.thisMonthLastYear
    /\ digest.tagRoundup.present = sections.tagRoundup.present
    /\ IdsOf(digest.tagRoundup.bookmarks) = sections.tagRoundup.bookmarks
    /\ digest.randomPick.id = sections.randomPick
    /\ digest.fromTheArchives.id = sections.fromTheArchives

\* Every provider.complete call that has settled has failed: it threw, or
\* its text could not be parsed as JSON.
EveryCallFailed ==
    \A b \in DOMAIN llmLog : \A i \in 1..Len(llmLog[b]) : TryThrows(llmLog[b][i])

\* C3: summarizeSections never rejects, whatever the provider does for each
\* call (throws, returns text that is not JSON, malformed JSON, or any JSON
\* value), and the digest it returns holds every item of the sections.
C3_AlwaysCompletes ==
    /\ sumPc # "rejected"
    /\ sumPc = "done" => DigestHoldsSections

\* C4: when every provider call has failed, every item of the returned
\* digest has a non-empty aiSummary: the bookmark's summary if that is
\* non-empty, else its title if that is non-empty, else the placeholder
\* "No summary available".
C4_FallbackOnFailure ==
    (sumPc = "done" /\ EveryCallFailed) =>
        \A r \in DigestItems :
            /\ r.aiSummary.len > 0
            /\ r.aiSummary =
                  IF Store[r.id].summary > 0 THEN Str("summary", r.id, Store[r.id].summary)
                  ELSE IF Store[r.id].title > 0 THEN Str("title", r.id, Store[r.id].title)
                  ELSE Str("No summary available", 0, 20)

\* A digest is returned after every call failed, with an item that had a
\* summary and a title, one that had only a title, and one that had neither.
C4_Witness ==
    /\ sumPc = "done"
    /\ EveryCallFailed
    /\ \E r \in DigestItems : Store[r.id].summary > 0 /\ Store[r.id].title > 0
    /\ \E r \in DigestItems : Store[r.id].summary = 0 /\ Store[r.id].title > 0
    /\ \E r \in DigestItems : Store[r.id].summary = 0 /\ Store[r.id].title = 0

\* A provider.complete call has returned the JSON value null.
SomeCallReturnedNull ==
    \E b \in DOMAIN llmLog : \E i \in 1..Len(llmLog[b]) : llmLog[b][i] = "JSON null"

\* C17: fetchBookmarkContent never throws, whatever its asset request does,
\* and summarizeSections is never rejected because of it.
C17_ContentFetchNeverRaises ==
    /\ ~fetchRaised
    /\ sumPc = "rejected" => SomeCallReturnedNull

\* summarizeSections has returned a digest although an asset request
\* failed: bookmark 2 is in it, its read time taken from its text.
C17_Witness ==
    /\ sumPc = "done"
    /\ fetchFailed
    /\ \E r \in DigestItems : r.id = 2 /\ r.readTime = 1

\* C18: every summarized item of the digest has a readTime that is an
\* integer from 1 to 90, items without content included.
C18_ReadTimeInRange ==
    \A r \in DigestItems : r.readTime \in 1..90

\* The items of the sections summarizeSections was called with, and the
\* number of provider.complete calls that have settled for b (0: for the
\* cluster synthesis).
SelectedItems ==
    Range(sections.recentlySaved) \cup Range(sections.buriedTreasure)
        \cup Range(sections.thisMonthLastYear) \cup Range(sections.tagRoundup.bookmarks)
        \cup OneOrNone(sections.randomPick) \cup OneOrNone(sections.fromTheArchives)
CallsFor(b) == IF b \in DOMAIN llmLog THEN Len(llmLog[b]) ELSE 0

PooledCallPending ==
    \/ AwaitingWorkers # {}
    \/ \E w \in DOMAIN fnState : fnState[w].stage # "over"

\* C34: the cluster synthesis call is made once in a run whose sections
\* have a tagRoundup and never in a run without one; it is one call, made
\* when the pool has finished the summaries of all the roundup's items, so
\* that no pooled call is under way with it.
C34_SynthesisOnce ==
    /\ CallsFor(0) <= 1
    /\ ~sections.tagRoundup.present => (sumPc # "synthesis" /\ CallsFor(0) = 0)
    /\ sumPc = "done" => CallsFor(0) = (IF sections.tagRoundup.present THEN 1 ELSE 0)
    /\ sumPc = "synthesis" =>
          /\ sections.tagRoundup.present
          /\ ~PooledCallPending
          /\ llmInFlight = 1
          /\ IdsOf(digest.tagRoundup.bookmarks) = sections.tagRoundup.bookmarks
    /\ CallsFor(0) = 1 =>
          IdsOf(digest.tagRoundup.bookmarks) = sections.tagRoundup.bookmarks

\* A digest is returned with a tag roundup of three items, each summarized
\* once, and one synthesis.
C34_Witness ==
    /\ sumPc = "done"
    /\ sections.tagRoundup.present
    /\ Len(digest.tagRoundup.bookmarks) = 3
    /\ CallsFor(0) = 1
    /\ digest.tagRoundup.synthesis.kind # "none"

\* The synthesis call has failed: provider.complete threw, or its text
\* could not be parsed.
SynthesisFailed == CallsFor(0) = 1 /\ TryThrows(llmLog[0][1])

\* How the fallback names bookmark b in keyInsights and in standout: by its
\* title, or when it has none by "Untitled" and by "the first article".
InsightOf(b) ==
    IF Store[b].title > 0 THEN Str("title", b, Store[b].title) ELSE Str("Untitled", 0, 8)
StandoutOf(b) ==
    IF Store[b].title > 0 THEN Str("title", b, Store[b].title)
    ELSE Str("the first article", 0, 17)

\* C35: when the synthesis call or the parsing of its response fails,
\* synthesizeCluster returns the fallback: an overview of the item count and
\* the tag, the titles of the first min(3, n) items in order as keyInsights,
\* and a standout that names the first item.
C35_SynthesisFallback ==
    SynthesisFailed =>
        LET syn == digest.tagRoundup.synthesis
            bms == sections.tagRoundup.bookmarks
        IN  /\ sumPc \notin {"synthesis", "tagRoundup"}
            /\ syn.kind = "fallback"
            /\ syn.count = Len(bms) /\ syn.tag = sections.tagRoundup.tag
            /\ Len(syn.keyInsights) = Min(3, Len(bms))
            /\ \A i \in 1..Min(3, Len(bms)) : syn.keyInsights[i] = InsightOf(bms[i])
            /\ syn.standout = StandoutOf(bms[1])

\* The synthesis of a roundup of four items has failed, the second of them
\* without a title, and the digest is returned with the fallback.
C35_Witness ==
    /\ sumPc = "done"
    /\ SynthesisFailed
    /\ Len(sections.tagRoundup.bookmarks) = 4
    /\ Store[sections.tagRoundup.bookmarks[2]].title = 0
    /\ Len(digest.tagRoundup.synthesis.keyInsights) = 3

\* The provider.complete calls that are pending: those of the
\* toSummarizedBookmark calls under way, and that of the synthesis.
CompleteCallsPending ==
    Cardinality({ w \in DOMAIN fnState : fnState[w].stage = "complete" })
      + (IF sumPc = "synthesis" THEN 1 ELSE 0)

\* C37: over a whole summarizeSections run the number of text-generation
\* calls in flight never exceeds 5: the calls under way are all of the
\* section being processed, a pool is awaited before the next section is
\* begun, and randomPick and fromTheArchives are summarized one at a time.
C37_InFlightAcrossRun ==
    /\ llmInFlight <= 5
    /\ llmInFlight = CompleteCallsPending
    /\ sumPc \in ListPhases =>
          \A w \in DOMAIN fnState :
              fnState[w].stage # "over" =>
                  fnState[w].bookmark \in Range(PhaseItems(sections, sumPc))
    /\ sumPc \in SinglePhases =>
          /\ llmInFlight <= 1
          /\ AwaitingWorkers = {}
          /\ DOMAIN fnState = {0}
          /\ fnState[0].bookmark = sections[sumPc]
    /\ sumPc = "synthesis" => (llmInFlight = 1 /\ ~PooledCallPending)
    /\ sumPc = "done" => llmInFlight = 0

\* Five calls are in flight for the tag roundup, after the pools of three
\* earlier sections that had items have returned.
C37_Witness ==
    /\ sumPc = "tagRoundup"
    /\ llmInFlight = 5
    /\ Len(digest.recentlySaved) > 0
    /\ Len(digest.buriedTreasure) > 0
    /\ Len(digest.thisMonthLastYear) > 0

\* C38: summarizeSections neither adds, drops nor reorders items: each
\* section of the digest it returns has the identifiers of the selected
\* section in the same order, an absent section is absent from the digest,
\* the tag of the roundup is the tag selected, and stats is the stats of
\* the sections.
C38_SectionsKept ==
    sumPc = "done" =>
        /\ DigestHoldsSections
        /\ digest.tagRoundup.tag = sections.tagRoundup.tag
        /\ ~sections.tagRoundup.present =>
              /\ digest.tagRoundup.bookmarks = <<>>
              /\ digest.tagRoundup.synthesis = NoSynthesis
        /\ sections.randomPick = NoBookmark => digest.randomPick = NoSummarized
        /\ sections.fromTheArchives = NoBookmark =>
              digest.fromTheArchives = NoSummarized
        /\ digest.stats = sections.stats

\* A digest is returned for sections with a list of several items, lists
\* without any, a random pick, and neither tag roundup nor archive pick.
C38_Witness ==
    /\ sumPc = "done"
    /\ Len(sections.recentlySaved) > 1
    /\ sections.thisMonthLastYear = <<>>
    /\ ~sections.tagRoundup.present
    /\ sections.randomPick # NoBookmark
    /\ sections.fromTheArchives = NoBookmark
    /\ sections.stats.totalUnread > 0

(***************************************************************************)
(*          The run: generateAndSendDigest and fetchBookmarks              *)
(***************************************************************************)

\* const pageSize = 100: the limit parameter of every page request.
pageSize == 100

\* Bounds of the server's collections: the unread and the archived
\* bookmarks it holds.
MaxServerUnread == 3
MaxServerArchived == 2

\* The bookmarks the server holds, in its order: the first n of each.
ServerUnreadOrder == <<1, 20, 7, 2, 3>>
ServerArchivedOrder == <<10, 11, 9>>

\* seq cut into pages of k items.
RECURSIVE Pages(_, _)
Pages(seq, k) ==
    IF Len(seq) <= k THEN (IF seq = <<>> THEN <<>> ELSE <<seq>>)
    ELSE <<SubSeq(seq, 1, k)>> \o Pages(SubSeq(seq, k + 1, Len(seq)), k)

\* The servers of the model: each collection in pages of 1 or 2 items (a
\* server may answer with fewer than limit items and a cursor).
Servers ==
    { [unread |-> Pages(SubSeq(ServerUnreadOrder, 1, n), k),
       archived |-> Pages(SubSeq(ServerArchivedOrder, 1, m), j)] :
        n \in 0..Min(MaxServerUnread, Len(ServerUnreadOrder)),
        m \in 0..Min(MaxServerArchived, Len(ServerArchivedOrder)),
        k \in 1..2, j \in 1..2 }

\* The body of the answer to GET /api/v1/bookmarks?limit=..&archived=a&cursor=c
\* (c = 0: no cursor): the page, and nextCursor (0: null).
ServerPage(srv, collection, c) ==
    [bookmarks |-> IF c + 1 <= Len(srv[collection]) THEN srv[collection][c + 1] ELSE <<>>,
     nextCursor |-> IF c + 1 < Len(srv[collection]) THEN c + 1 ELSE 0]

\* What the page requests of a run meet.
RunResponses ==
    { NetworkFailure, HttpResponse(429, NoHeader, FALSE), HttpResponse(500, NoHeader, FALSE),
      HttpResponse(404, NoHeader, FALSE), HttpResponse(200, NoHeader, TRUE) }

FetchStages == {"fetchUnread", "fetchLastYear", "fetchArchived"}

\* The archived parameter of each retrieval: fetchBookmarks({archived: false}),
\* fetchBookmarks({}) with archived defaulting to false, and
\* fetchBookmarks({archived: true}).
StageCollection(stage) == IF stage = "fetchArchived" THEN "archived" ELSE "unread"

\* getLastYearDateRange: createdAt within this calendar month of last year.
InLastYearMonth(b) ==
    Store[b].createdAt >= Now - 395 /\ Store[b].createdAt <= Now - 365

\* apiRequest is called.
ApiCalled ==
    /\ apiPc' = "fetch"
    /\ attempt' = 1
    /\ lastError' = NullError
    /\ httpLog' = <<>>
    /\ sleepLog' = <<>>
    /\ apiResult' = NullError

\* The parameters of a page request: limit, archived, and cursor (0: not set).
PageRequest(stage, c) ==
    [limit |-> pageSize, archived |-> (StageCollection(stage) = "archived"), cursor |-> c]

\* fetchBookmarks is called, up to its first await: the request of the
\* first page, without cursor.
FetchBookmarksCalled(stage) ==
    /\ fetchAcc' = <<>>
    /\ cursor' = 0
    /\ requestLog' = <<PageRequest(stage, 0)>>
    /\ ApiCalled

FailedFetchPartial(acc) == acc

PushedOverPrevious(acc, page) == page.bookmarks

\* for (const raw of response.bookmarks) bookmarks.push(transformBookmark(raw))
PushPage(acc, page) == acc \o page.bookmarks

\* What fetchBookmarks hands its caller when apiRequest throws: it has no
\* try/catch, the error propagates and the bookmarks local is dropped.
FailedFetchResult(acc) == NotReturned

CatchSwallows(stage) == "running"

\* The catch of generateAndSendDigest: it logs and rethrows, whatever the
\* await that threw.
CatchOutcome(stage) == "failed"

\* generateAndSendDigest is called, up to its first await.
RunStart ==
    /\ runPc = "idle"
    /\ server' \in Servers
    /\ runPc' = "fetchUnread"
    /\ FetchBookmarksCalled("fetchUnread")
    /\ UNCHANGED <<runOutcome, runError, runUnread, runLastYear, runArchived, rendered,
                   emailsSent>>
    /\ UNCHANGED notRun

\* The fetch of the page request under way settles with r.
RunApiFetch ==
    /\ runOutcome = "running"
    /\ runPc \in FetchStages
    /\ \E r \in RunResponses : ApiFetch(r)

\* The sleep of the page request under way is over.
RunApiWake ==
    /\ runOutcome = "running"
    /\ runPc \in FetchStages
    /\ ApiWake

\* apiRequest returns a page with a nextCursor: its bookmarks are pushed
\* and the next page is requested.
RunNextPage ==
    /\ runOutcome = "running"
    /\ runPc \in FetchStages
    /\ apiPc = "returned"
    /\ LET page == ServerPage(server, StageCollection(runPc), cursor)
       IN  /\ page.nextCursor # 0
           /\ fetchAcc' = PushPage(fetchAcc, page)
           /\ cursor' = page.nextCursor
           /\ requestLog' = Append(requestLog, PageRequest(runPc, page.nextCursor))
    /\ ApiCalled
    /\ UNCHANGED <<runPc, runOutcome, runError, server, runUnread, runLastYear,
                   runArchived, rendered, emailsSent>>
    /\ UNCHANGED notRun

\* apiRequest returns the last page: fetchBookmarks returns, and the run
\* goes on to its next await, or returns when there is no unread bookmark.
\* After the last retrieval it calls categorize and summarizeSections.
RunLastPage ==
    /\ runOutcome = "running"
    /\ runPc \in FetchStages
    /\ apiPc = "returned"
    /\ LET page == ServerPage(server, StageCollection(runPc), cursor)
           all == PushPage(fetchAcc, page)
       IN  /\ page.nextCursor = 0
           /\ CASE runPc = "fetchUnread" ->
                     /\ runUnread' = all
                     /\ IF Len(all) = 0
                        THEN /\ runOutcome' = "skipped"
                             /\ fetchAcc' = all
                             /\ UNCHANGED <<runPc, cursor, requestLog, apiVars>>
                        ELSE /\ runPc' = "fetchLastYear"
                             /\ FetchBookmarksCalled("fetchLastYear")
                             /\ UNCHANGED runOutcome
                     /\ UNCHANGED <<runLastYear, runArchived>>
                [] runPc = "fetchLastYear" ->
                     /\ runLastYear' = SelectSeq(all, InLastYearMonth)
                     /\ runPc' = "fetchArchived"
                     /\ FetchBookmarksCalled("fetchArchived")
                     /\ UNCHANGED <<runOutcome, runUnread, runArchived>>
                [] runPc = "fetchArchived" ->
                     /\ runArchived' = all
                     /\ runPc' = "summarize"
                     /\ fetchAcc' = all
                     /\ UNCHANGED <<runOutcome, runUnread, runLastYear, cursor, requestLog,
                                    apiVars>>
    /\ UNCHANGED <<runError, server, rendered, emailsSent>>
    /\ UNCHANGED notRun

\* apiRequest throws: fetchBookmarks throws, and the catch of
\* generateAndSendDigest rethrows.
RunPageThrown ==
    /\ runOutcome = "running"
    /\ runPc \in FetchStages
    /\ apiPc = "thrown"
    /\ runOutcome' = CatchOutcome(runPc)
    /\ runError' = apiResult
    /\ runUnread' = IF runPc = "fetchUnread" THEN FailedFetchResult(fetchAcc) ELSE runUnread
    /\ runLastYear' = IF runPc = "fetchLastYear" THEN FailedFetchResult(fetchAcc)
                      ELSE runLastYear
    /\ runArchived' = IF runPc = "fetchArchived" THEN FailedFetchResult(fetchAcc)
                      ELSE runArchived
    /\ UNCHANGED <<runPc, server, fetchAcc, cursor, requestLog, rendered, emailsSent>>
    /\ UNCHANGED apiVars
    /\ UNCHANGED notRun

\* summarizeSections settles: on a digest the run renders it and calls
\* sendDigest; on a rejection the run fails.
RunSummarizeSettles ==
    /\ runOutcome = "running"
    /\ runPc = "summarize"
    /\ \/ /\ rendered' = TRUE
          /\ runPc' = "send"
          /\ UNCHANGED <<runOutcome, runError>>
       \/ /\ runOutcome' = CatchOutcome(runPc)
          /\ runError' = [msg |-> "summarizeSections rejected", status |-> 0]
          /\ UNCHANGED <<runPc, rendered>>
    /\ UNCHANGED <<server, fetchAcc, cursor, requestLog, runUnread, runLastYear,
                   runArchived, emailsSent>>
    /\ UNCHANGED apiVars
    /\ UNCHANGED notRun

\* sendDigest settles: the mail is sent, or it throws.
RunSendSettles ==
    /\ runOutcome = "running"
    /\ runPc = "send"
    /\ \/ /\ emailsSent' = emailsSent + 1
          /\ runOutcome' = "done"
          /\ UNCHANGED runError
       \/ /\ runOutcome' = CatchOutcome(runPc)
          /\ runError' = [msg |-> "sendDigest failed", status |-> 0]
          /\ UNCHANGED emailsSent
    /\ UNCHANGED <<runPc, server, fetchAcc, cursor, requestLog, runUnread, runLastYear,
                   runArchived, rendered>>
    /\ UNCHANGED apiVars
    /\ UNCHANGED notRun

RunInit ==
    /\ RunIdle /\ FilterIdle /\ ApiStart /\ PoolIdle /\ CatIdle /\ SumIdle
    /\ TruncIdle /\ ScoreIdle

RunNext ==
    \/ RunStart
    \/ RunApiFetch
    \/ RunApiWake
    \/ RunNextPage
    \/ RunLastPage
    \/ RunPageThrown
    \/ RunSummarizeSettles
    \/ RunSendSettles

SpecRun == RunInit /\ [][RunNext]_vars

\* What the retrieval of a stage has returned to the run.
ReturnedOf(stage) ==
    CASE stage = "fetchUnread" -> runUnread
      [] stage = "fetchLastYear" -> runLastYear
      [] stage = "fetchArchived" -> runArchived

\* C11: when the request of a page has thrown after its retries, the
\* retrieval fails with that error: the run fails at once, the retrieval has
\* returned nothing to it (the pages fetched before are dropped), and no
\* digest is rendered or sent.
C11_PageFailureAborts ==
    /\ [][(apiPc = "thrown" /\ runOutcome = "running") => runOutcome' = "failed"]_vars
    /\ []((apiPc = "thrown" /\ runOutcome # "running") =>
            /\ runOutcome = "failed"
            /\ runPc \in FetchStages
            /\ runError = apiResult
            /\ ReturnedOf(runPc) = NotReturned
            /\ ~rendered
            /\ emailsSent = 0)

\* The run has failed in the unread retrieval on the third attempt of its
\* second page request, the first page fetched.
C11_Witness ==
    /\ runOutcome = "failed"
    /\ runPc = "fetchUnread"
    /\ Len(requestLog) = 2
    /\ Len(fetchAcc) > 0
    /\ apiPc = "thrown"
    /\ Len(httpLog) = MAX_RETRIES
    /\ runUnread = NotReturned

\* The items of a sequence of pages, in page order.
RECURSIVE Concat(_)
Concat(pages) == IF pages = <<>> THEN <<>> ELSE Head(pages) \o Concat(Tail(pages))

\* The bookmarks the server stores, archived or not.
Stored == Range(Concat(server.unread)) \cup Range(Concat(server.archived))

\* fetchThisMonthLastYear has returned to the run.
LastYearReturned == runPc \in {"fetchArchived", "summarize", "send"}

\* C22: the collection fetchThisMonthLastYear returns holds every stored
\* bookmark, archived or not, whose createdAt lies in this calendar month
\* of last year, and no other bookmark.
C22_LastYearCollection ==
    LastYearReturned =>
        Range(runLastYear) = { b \in Stored : InLastYearMonth(b) }

\* The pages of the collection the logged requests ask for, and the answer
\* to the i-th of them.
PagesAsked == IF requestLog[1].archived THEN server.archived ELSE server.unread
AnswerTo(i) ==
    ServerPage(server, IF requestLog[i].archived THEN "archived" ELSE "unread",
               requestLog[i].cursor)

\* The requests of the retrieval under way: each asks for 100 items; the
\* first carries no cursor, each later one the nextCursor of the page
\* before it, which was not null; no two ask for the same page.
RequestsInSequence ==
    runPc \in FetchStages =>
        /\ \A i \in DOMAIN requestLog :
              /\ requestLog[i].limit = 100
              /\ requestLog[i].cursor = (IF i = 1 THEN 0 ELSE AnswerTo(i - 1).nextCursor)
              /\ i > 1 => AnswerTo(i - 1).nextCursor # 0
        /\ \A i, j \in DOMAIN requestLog :
              i # j => requestLog[i].cursor # requestLog[j].cursor

\* The bookmarks gathered so far are those of the pages answered, in order.
GatheredInOrder ==
    (runPc \in FetchStages /\ runOutcome = "running") =>
        fetchAcc = Concat([i \in 1..(Len(requestLog) - 1) |-> AnswerTo(i).bookmarks])

\* The retrieval of a collection has returned: after its last page the
\* unread one, after the run has gone on to summarize the archived one.
UnreadReturned == runUnread # NotReturned
ArchivedReturned == runPc \in {"summarize", "send"}
LastAnswerEnds ==
    (runOutcome = "skipped" \/ runPc = "summarize") =>
        /\ AnswerTo(Len(requestLog)).nextCursor = 0
        /\ Len(requestLog) = (IF PagesAsked = <<>> THEN 1 ELSE Len(PagesAsked))

\* C28: fetchBookmarks asks for pages of 100 one at a time, each request
\* carrying the cursor the page before returned; it stops at the first page
\* whose nextCursor is null; it returns the bookmarks of all pages in page
\* order, no page asked for twice and none skipped.
C28_PagesInSequence ==
    /\ [](RequestsInSequence /\ GatheredInOrder)
    /\ [][(requestLog' # requestLog /\ requestLog # <<>>) => apiPc = "returned"]_vars
    /\ [](UnreadReturned => runUnread = Concat(server.unread))
    /\ [](ArchivedReturned => runArchived = Concat(server.archived))
    /\ []LastAnswerEnds

\* The unread retrieval has returned three bookmarks fetched in two pages.
C28_Witness ==
    /\ runPc = "fetchLastYear"
    /\ Len(server.unread) = 2
    /\ runUnread = Concat(server.unread)
    /\ Len(runUnread) = 3

\* The place of an await of the run in its sequence.
StageRank(pc) ==
    CASE pc = "idle" -> 0
      [] pc = "fetchUnread" -> 1
      [] pc = "fetchLastYear" -> 2
      [] pc = "fetchArchived" -> 3
      [] pc = "summarize" -> 4
      [] pc = "send" -> 5

\* categorize and summarizeSections have been called, the latter awaited or
\* returned.
SelectionDone == runPc \in {"summarize", "send"}
RetrievalsDone ==
    /\ runUnread # NotReturned /\ runLastYear # NotReturned /\ runArchived # NotReturned
    /\ runUnread = Concat(server.unread)
    /\ runArchived = Concat(server.archived)

\* C36: a run is linear: its awaits follow one another in the order unread
\* retrieval, last-year retrieval, archived retrieval, summarizeSections,
\* send; selection and summarization start only when the three retrievals
\* have returned; the digest is rendered and sent, once, only after
\* summarizeSections has returned; and when a stage has raised no email is
\* sent in that run.
C36_RunIsLinear ==
    /\ [][StageRank(runPc') \in {StageRank(runPc), StageRank(runPc) + 1}]_vars
    /\ [](SelectionDone => RetrievalsDone)
    /\ [](rendered <=> runPc = "send")
    /\ [](emailsSent <= 1)
    /\ [](emailsSent = 1 => (rendered /\ runOutcome = "done"))
    /\ [](runError # NullError => (runOutcome = "failed" /\ emailsSent = 0))
    /\ [][runError # NullError => emailsSent' = emailsSent]_vars

\* summarizeSections has rejected after the three retrievals: the run has
\* failed with nothing rendered and nothing sent.
C36_Witness ==
    /\ runOutcome = "failed"
    /\ runPc = "summarize"
    /\ RetrievalsDone
    /\ Len(runArchived) > 0
    /\ ~rendered /\ emailsSent = 0


(***************************************************************************)
(*                  Content truncation: truncateContent                    *)
(***************************************************************************)

CONTENT_MAX_LENGTH == 8000

\* Bound of truncateContent's input: the lengths tried are those up to
\* NearLimit, those within NearLimit of CONTENT_MAX_LENGTH and of twice
\* CONTENT_MAX_LENGTH.
NearLimit == 40

\* A string is the sequence of its characters.  The characters of a content
\* string are told apart by their place in it: the content of n characters
\* is <<1, ..., n>>.
ContentOf(n) == [i \in 1..n |-> i]

\* "\n\n[... content truncated ...]\n\n", the text of the template literal
\* between ${start} and ${end}: two line feeds, the 27 characters of the
\* notice and two line feeds, each a character no content has.
TruncationMarker == [i \in 1..(2 + 27 + 2) |-> 0 - i]

\* String.prototype.slice(start, end) with end >= 0, and slice(start): a
\* negative start counts from the end of the string.
SliceStart(str, start) ==
    IF start < 0 THEN (IF Len(str) + start < 0 THEN 0 ELSE Len(str) + start)
    ELSE Min(start, Len(str))
StringSlice(str, start, end) == SubSeq(str, SliceStart(str, start) + 1, Min(end, Len(str)))
SliceToEnd(str, start) == SubSeq(str, SliceStart(str, start) + 1, Len(str))

\* Each half is half of CONTENT_MAX_LENGTH, with no room for the marker.
truncateContentUnreserved(content) ==
    IF Len(content) <= CONTENT_MAX_LENGTH THEN content
    ELSE LET halfLength == CONTENT_MAX_LENGTH \div 2
         IN  StringSlice(content, 0, halfLength) \o TruncationMarker
                 \o SliceToEnd(content, 0 - halfLength)

truncateContent(content) ==
    IF Len(content) <= CONTENT_MAX_LENGTH THEN content
    ELSE LET halfLength == (CONTENT_MAX_LENGTH \div 2) - 50
         IN  StringSlice(content, 0, halfLength) \o TruncationMarker
                 \o SliceToEnd(content, 0 - halfLength)

\* The lengths of the contents truncateContent is called with.
TruncLengths ==
    (0..NearLimit)
        \cup ((CONTENT_MAX_LENGTH - NearLimit)..(CONTENT_MAX_LENGTH + NearLimit))
        \cup ((2 * CONTENT_MAX_LENGTH - NearLimit)..(2 * CONTENT_MAX_LENGTH + NearLimit))

\* truncateContent(content) is called and returns.
TruncCall ==
    /\ truncPc = "idle"
    /\ \E n \in TruncLengths :
          /\ truncInput' = ContentOf(n)
          /\ truncOutput' = truncateContent(ContentOf(n))
    /\ truncPc' = "returned"
    /\ UNCHANGED notTrunc

TruncInit ==
    /\ TruncIdle /\ ScoreIdle /\ ApiStart /\ PoolIdle /\ CatIdle /\ SumIdle
    /\ FilterIdle /\ RunIdle

TruncNext == TruncCall

SpecTrunc == TruncInit /\ [][TruncNext]_vars

\* str is h characters from the start of content, the marker, and the last
\* h characters of content.
IsHeadMarkerTail(str, content, h) ==
    /\ h <= Len(content)
    /\ Len(str) = h + Len(TruncationMarker) + h
    /\ str = SubSeq(content, 1, h) \o TruncationMarker
                 \o SubSeq(content, Len(content) - h + 1, Len(content))

\* C39: truncateContent returns content of at most 8000 characters
\* unchanged; for longer content it returns a prefix of the content, the
\* truncation marker and a suffix of the content, the prefix and the suffix
\* of the same length, and what it returns has at most 8000 characters.
C39_TruncateContent ==
    truncPc = "returned" =>
        IF Len(truncInput) <= 8000
        THEN truncOutput = truncInput
        ELSE /\ \E h \in 0..8000 : IsHeadMarkerTail(truncOutput, truncInput, h)
             /\ Len(truncOutput) <= 8000

\* A content of 8001 characters was truncated: its characters 3951 to 4051
\* are not returned.
C39_Witness ==
    /\ truncPc = "returned"
    /\ Len(truncInput) = 8001
    /\ Len(truncOutput) < Len(truncInput)
    /\ 3950 \in Range(truncOutput)
    /\ 4052 \in Range(truncOutput)
    /\ Range(truncOutput) \cap (3951..4051) = {}


(***************************************************************************)
(*        Priority score: calculatePriorityScore and getPriorityTags       *)
(***************************************************************************)

\* Bounds of calculatePriorityScore's inputs: the entries of PRIORITY_TAGS
\* and the tags of the bookmark.
MaxPriorityEntries == 2
MaxScoreTags == 2

\* A string is the sequence of its characters.
UpperCase == <<"W", "O", "R", "K", "E", "F">>
LowerCase == <<"w", "o", "r", "k", "e", "f">>

\* String.prototype.toLowerCase
LowerChar(c) ==
    IF \E i \in DOMAIN UpperCase : UpperCase[i] = c
    THEN LowerCase[CHOOSE i \in DOMAIN UpperCase : UpperCase[i] = c]
    ELSE c
toLowerCase(str) == [i \in DOMAIN str |-> LowerChar(str[i])]

\* String.prototype.trim
RECURSIVE trimStart(_)
trimStart(str) ==
    IF str # <<>> /\ Head(str) = " " THEN trimStart(Tail(str)) ELSE str
RECURSIVE trimEnd(_)
trimEnd(str) ==
    IF str # <<>> /\ str[Len(str)] = " "
    THEN trimEnd(SubSeq(str, 1, Len(str) - 1)) ELSE str
trim(str) == trimEnd(trimStart(str))

\* getPriorityTags, env being config.priorityTags.split(","):
\* .map((t) => t.trim().toLowerCase()).filter(Boolean)
getPriorityTags(env) ==
    SelectSeq([i \in DOMAIN env |-> toLowerCase(trim(env[i]))],
              LAMBDA t : t # <<>>)

\* The bookmark's tags are compared as they are written.
calculatePriorityScoreCaseSensitive(bookmark, now, env) ==
    LET priorityTags == getPriorityTags(env)
        tagBoost == IF \E pt \in Range(priorityTags) : pt \in Range(bookmark.tags)
                    THEN 20 ELSE 0
        fullBoost == IF bookmark.contentLength > 500 THEN 5 ELSE 0
        longBoost == IF bookmark.contentLength > 2000 THEN 3 ELSE 0
    IN  [ageInDays |-> now - bookmark.createdAt,
         boost |-> tagBoost + fullBoost + longBoost]

\* calculatePriorityScore(bookmark, now), getPriorityTags reading env.  The
\* score is Math.log(ageInDays + 1) * 10 + boost: it is kept as ageInDays
\* and the sum of the boosts added to the logarithm.
calculatePriorityScore(bookmark, now, env) ==
    LET priorityTags == getPriorityTags(env)
        bookmarkTagsLower == [i \in DOMAIN bookmark.tags |-> toLowerCase(bookmark.tags[i])]
        tagBoost == IF \E pt \in Range(priorityTags) : pt \in Range(bookmarkTagsLower)
                    THEN 20 ELSE 0
        fullBoost == IF bookmark.contentLength > 500 THEN 5 ELSE 0
        longBoost == IF bookmark.contentLength > 2000 THEN 3 ELSE 0
    IN  [ageInDays |-> now - bookmark.createdAt,
         boost |-> tagBoost + fullBoost + longBoost]

\* The entries PRIORITY_TAGS is written with, and the names of tags.
PriorityEntries ==
    { <<>>, <<" ">>, <<"w", "o", "r", "k">>, <<" ", "W", "o", "r", "k", " ">>,
      <<"R", "E", "F">> }
TagNames ==
    { <<"w", "o", "r", "k">>, <<"W", "O", "R", "K">>, <<"r", "e", "f">>,
      <<"R", "e", "f">>, <<"n", "e", "w", "s">> }

\* The length of content.htmlContent || content.text || "".
ContentLengths == {0, 500, 501, 2000, 2001}

\* calculatePriorityScore(bookmark, now) is called.
ScoreCall ==
    /\ scorePc = "idle"
    /\ \E env \in SeqsUpTo(PriorityEntries, MaxPriorityEntries),
          tags \in SeqsUpTo(TagNames, MaxScoreTags),
          len \in ContentLengths, createdAt \in {Now - 400, Now} :
          LET b == [createdAt |-> createdAt, tags |-> tags, contentLength |-> len]
          IN  /\ priorityTagsEnv' = env
              /\ scoreBookmark' = b
              /\ scoreFirst' = calculatePriorityScore(b, Now, env)
    /\ scorePc' = "scored"
    /\ UNCHANGED <<tagAdded, scoreSecond>>
    /\ UNCHANGED notScore

\* The bookmark with one more tag.
WithTag(bookmark, t) == [bookmark EXCEPT !.tags = Append(bookmark.tags, t)]

\* calculatePriorityScore is called on the same bookmark with one more tag.
ScoreWithTag ==
    /\ scorePc = "scored"
    /\ \E t \in TagNames :
          /\ tagAdded' = t
          /\ scoreSecond' = calculatePriorityScore(WithTag(scoreBookmark, t), Now,
                                                   priorityTagsEnv)
    /\ scorePc' = "rescored"
    /\ UNCHANGED <<priorityTagsEnv, scoreBookmark, scoreFirst>>
    /\ UNCHANGED notScore

ScoreInit ==
    /\ ScoreIdle /\ TruncIdle /\ ApiStart /\ PoolIdle /\ CatIdle /\ SumIdle
    /\ FilterIdle /\ RunIdle

ScoreNext == ScoreCall \/ ScoreWithTag

SpecScore == ScoreInit /\ [][ScoreNext]_vars

\* The tag name t matches the configured priority-tag list, letter case
\* set aside.
MatchesPriorityTags(t) ==
    \E i \in DOMAIN priorityTagsEnv :
        /\ trim(priorityTagsEnv[i]) # <<>>
        /\ toLowerCase(trim(priorityTagsEnv[i])) = toLowerCase(t)

\* The second score is the first and 20 more.
TwentyMore ==
    /\ scoreSecond.ageInDays = scoreFirst.ageInDays
    /\ scoreSecond.boost = scoreFirst.boost + 20

\* The item had the tag added, in some letter case.
HadTheTag ==
    \E i \in DOMAIN scoreBookmark.tags :
        toLowerCase(scoreBookmark.tags[i]) = toLowerCase(tagAdded)

\* C40 as stated: adding to an item a tag it did not have and that matches
\* the configured priority-tag list, letter case set aside, increases its
\* score by exactly 20, the other fields being the same.
C40_AnyMatchingTagAdds20 ==
    (scorePc = "rescored" /\ MatchesPriorityTags(tagAdded) /\ ~HadTheTag)
        => TwentyMore

\* C40: adding to an item a tag that matches the configured priority-tag
\* list, letter case set aside, increases its score by exactly 20 when none
\* of the tags the item had matches, and leaves the score as it was when
\* one of them does.
C40_FirstMatchingTagAdds20 ==
    (scorePc = "rescored" /\ MatchesPriorityTags(tagAdded)) =>
        IF \E i \in DOMAIN scoreBookmark.tags :
               MatchesPriorityTags(scoreBookmark.tags[i])
        THEN scoreSecond = scoreFirst
        ELSE TwentyMore

\* A tag written in capitals that matches an entry written in small letters
\* was added to a bookmark with content and a tag that does not match, and
\* the score is 20 more.
C40_Witness ==
    /\ scorePc = "rescored"
    /\ tagAdded = <<"W", "O", "R", "K">>
    /\ <<"w", "o", "r", "k">> \in Range(priorityTagsEnv)
    /\ scoreBookmark.tags = << <<"n", "e", "w", "s">> >>
    /\ scoreBookmark.contentLength > 2000
    /\ scoreFirst.boost = 8
    /\ scoreSecond.boost = 28

====
